---- MODULE Spec2Model ----
(***************************************************************************)
(* polybrain-mcp: the conversation store (ConversationManager), its        *)
(* truncation policy and the chat / conversation_history tool handlers.    *)
(*                                                                         *)
(* JavaScript arrays are objects with identity: a conversation's           *)
(* `messages` field holds a reference into `heap`, so that sharing an      *)
(* array between two conversations is representable.  Message objects are  *)
(* never mutated after construction and are modelled as values.  The       *)
(* createdAt / updatedAt timestamps and the `reasoning` option, which no   *)
(* stored message depends on, are not modelled.                            *)
(*                                                                         *)
(* SpecManager drives the ConversationManager methods directly; Spec       *)
(* drives the registered tools, a chat invocation being two atomic steps   *)
(* (up to its await, and after it) as JavaScript runs handlers to the next *)
(* await without interleaving.                                             *)
(*                                                                         *)
(* SpecLauncher drives the launcher side: ServerLauncher invocations       *)
(* (ensureServerRunning, killServerByPort), the server processes they      *)
(* spawn (startServerOnly) and the one TCP port they compete for.  Separate *)
(* operating-system processes run in parallel, so their steps interleave   *)
(* freely; binding the port is exclusive.                                  *)
(*                                                                         *)
(* SpecMain drives whole bin/polybrain.js processes: main with its         *)
(* configuration loader, logger, exit code and output streams, the         *)
(* ServerLauncher calls it makes, and the chat tool it serves over stdio   *)
(* on the ConversationManager of the launcher process.                     *)
(*                                                                         *)
(* SpecListModels drives the list_models tool alone, under every           *)
(* configuration of one or two models that differ in id, endpoint and key. *)
(***************************************************************************)
EXTENDS Integers, Sequences, FiniteSets, TLC

\* ------------------------------------------------------------------ bounds
MaxConvs == 2        \* conversations the store may hold
MaxTotal == 4        \* messages stored over all conversations (manager calls)
MaxChats == 2        \* chat invocations that reach the store
MaxHandlers == 2     \* chat invocations in flight at once
MaxLimit == 2        \* largest truncateLimit the manager is constructed with
MaxToolCalls == 1    \* chat invocations one launcher handles over stdio

\* ------------------------------------------------------------ value spaces
UUIDSeq == <<"u1", "u2", "u3">>      \* the values randomUUID() returns, in order
UUIDs == {UUIDSeq[i] : i \in 1..Len(UUIDSeq)}
IdArgs == UUIDs                      \* identifiers a caller may pass, issued yet or not
Addrs == 1..(MaxConvs + 1)           \* array references
Roles == {"user", "assistant"}
Contents == {"a", "b"}               \* texts a caller sends
Replies == {"r"}                     \* texts a provider answers
ModelArgs == {"A", "B"}              \* modelId strings handed to the manager
Undefined == "<undefined>"           \* an omitted optional argument
NoAddr == 0                          \* "not a stored array"

MarkerText == "[... conversation history truncated to save context ...]"

ChatMessage(role, content) == [role |-> role, content |-> content]

Messages == {ChatMessage(r, c) : r \in Roles, c \in Contents \cup Replies}

VARIABLES
    truncateLimit,   \* ConversationManager.truncateLimit
    conversations,   \* ConversationManager.conversations : id -> ConversationState
    heap,            \* array reference -> the array's elements
    last,            \* the last manager call: [op, id, out]
    appended,        \* per created conversation, the addMessage calls made on it
    handlers,        \* chat tool invocations: idle, or suspended at the await
    chats,           \* chat invocations that have reached the store so far
    reply,           \* the last tool result handed back: [tool, args, result]
    launcher,        \* per launcher process, its ServerLauncher call
    servers,         \* per server process, how far startServerOnly has come
    foreign,         \* a process that is no polybrain server holds the port
    toolsConfig      \* registerTools' config: the ServerConfig the tools work with

launchVars == <<launcher, servers, foreign>>

vars == <<truncateLimit, conversations, heap, last, appended, handlers, chats, reply,
          launchVars, toolsConfig>>

\* ------------------------------------------------------------ JavaScript
Min(a, b) == IF a < b THEN a ELSE b
Max(a, b) == IF a > b THEN a ELSE b

\* Array.prototype.slice: a negative index counts from the end, -0 is 0.
RelIndex(i, len) == IF i < 0 THEN Max(len + i, 0) ELSE Min(i, len)

Slice(s, start, end) ==
    LET from == RelIndex(start, Len(s))
        to   == RelIndex(end, Len(s))
    IN  IF to <= from THEN <<>> ELSE SubSeq(s, from + 1, to)

SliceFrom(s, start) == Slice(s, start, Len(s))

\* a value in a boolean context
Truthy(s) == s \notin {Undefined, ""}

\* ------------------------------------------------------------ the store
Store == [conversations |-> conversations, heap |-> heap]

Known(S, id) == id \in DOMAIN S.conversations

MessagesOf(S, id) == S.heap[S.conversations[id].messages]

\* `[]` and `.map()` allocate a new array
NewArray(h) == CHOOSE a \in Addrs : a \notin DOMAIN h /\ \A b \in Addrs : b \notin DOMAIN h => a <= b

\* arrays nothing refers to are collected
Collect(S) ==
    LET live == {S.conversations[c].messages : c \in DOMAIN S.conversations}
    IN  [conversations |-> S.conversations,
         heap |-> [a \in live |-> S.heap[a]]]

Ok(v) == [kind |-> "ok", value |-> v]
Throw(msg) == [kind |-> "throw", value |-> msg]

createConversation(S, modelId, uuid) ==
    LET a == NewArray(S.heap)
        conversation == [id |-> uuid, modelId |-> modelId, messages |-> a]
    IN  [S |-> [conversations |->
                    [c \in DOMAIN S.conversations \cup {uuid} |->
                        IF c = uuid THEN conversation ELSE S.conversations[c]],
                heap |-> [b \in DOMAIN S.heap \cup {a} |->
                        IF b = a THEN <<>> ELSE S.heap[b]]],
         out |-> Ok(uuid)]

Null == [id |-> "null", modelId |-> "null", messages |-> NoAddr]

getConversation(S, conversationId) ==
    IF Known(S, conversationId) THEN S.conversations[conversationId] ELSE Null

\* mutant: the message is put in front of the list
addMessage_unshift(S, conversationId, role, content) ==
    IF ~Known(S, conversationId)
    THEN [S |-> S, out |-> Throw(<<"Conversation not found: ", conversationId>>)]
    ELSE LET a == S.conversations[conversationId].messages
         IN  [S |-> [conversations |-> S.conversations,
                     heap |-> [S.heap EXCEPT ![a] = <<ChatMessage(role, content)>> \o @]],
              out |-> Ok(Undefined)]

addMessage(S, conversationId, role, content) ==
    IF ~Known(S, conversationId)
    THEN [S |-> S, out |-> Throw(<<"Conversation not found: ", conversationId>>)]
    ELSE LET a == S.conversations[conversationId].messages
         IN  [S |-> [conversations |-> S.conversations,
                     heap |-> [S.heap EXCEPT ![a] = Append(@, ChatMessage(role, content))]],
              out |-> Ok(Undefined)]

Marker == ChatMessage("assistant", MarkerText)

\* mutant: keeps `limit` messages on each side
truncateMessages_keepsLimit(messages, limit) ==
    IF Len(messages) <= limit
    THEN messages
    ELSE LET kept  == limit
             first == Slice(messages, 0, kept)
             last_ == SliceFrom(messages, 0 - kept)
         IN  first \o <<Marker>> \o last_

truncateMessages(messages, limit) ==
    IF Len(messages) <= limit
    THEN messages
    ELSE LET kept  == limit \div 2
             first == Slice(messages, 0, kept)
             last_ == SliceFrom(messages, 0 - kept)
         IN  first \o <<Marker>> \o last_

\* mutant: the truncated view replaces the stored list
getHistory_writesBack(S, conversationId, limit) ==
    IF ~Known(S, conversationId)
    THEN [S |-> S, out |-> Throw(<<"Conversation not found: ", conversationId>>)]
    ELSE LET a == S.conversations[conversationId].messages
             view == truncateMessages(S.heap[a], limit)
         IN  [S |-> [conversations |-> S.conversations,
                     heap |-> [S.heap EXCEPT ![a] = view]],
              out |-> [kind |-> "ok", value |-> view, alias |-> a]]

\* mutant: an unknown conversation has an empty history
getHistory_emptyForUnknown(S, conversationId, limit) ==
    IF ~Known(S, conversationId)
    THEN [S |-> S, out |-> [kind |-> "ok", value |-> <<>>, alias |-> NoAddr]]
    ELSE LET a == S.conversations[conversationId].messages
             view == truncateMessages(S.heap[a], limit)
         IN  [S |-> S,
              out |-> [kind |-> "ok", value |-> view,
                       alias |-> IF Len(S.heap[a]) <= limit THEN a ELSE NoAddr]]

\* the array getHistory returns: the stored array itself when nothing is
\* cut, a new array otherwise
getHistory(S, conversationId, limit) ==
    IF ~Known(S, conversationId)
    THEN [S |-> S, out |-> Throw(<<"Conversation not found: ", conversationId>>)]
    ELSE LET a == S.conversations[conversationId].messages
             view == truncateMessages(S.heap[a], limit)
         IN  [S |-> S,
              out |-> [kind |-> "ok", value |-> view,
                       alias |-> IF Len(S.heap[a]) <= limit THEN a ELSE NoAddr]]

\* mutant: the clone stays bound to the source's model
cloneConversation_keepsModel(S, sourceConversationId, newModelId, uuid) ==
    IF ~Known(S, sourceConversationId)
    THEN [S |-> S, out |-> Throw(<<"Source conversation not found: ", sourceConversationId>>)]
    ELSE LET source  == S.conversations[sourceConversationId]
             created == createConversation(S, source.modelId, uuid).S
             copy    == NewArray(created.heap)
         IN  [S |-> Collect(
                    [conversations |-> [created.conversations EXCEPT ![uuid].messages = copy],
                     heap |-> [b \in DOMAIN created.heap \cup {copy} |->
                                 IF b = copy THEN S.heap[source.messages]
                                 ELSE created.heap[b]]]),
              out |-> Ok(uuid)]

\* mutant: the clone refers to the source's array instead of a copy
cloneConversation_sharesArray(S, sourceConversationId, newModelId, uuid) ==
    IF ~Known(S, sourceConversationId)
    THEN [S |-> S, out |-> Throw(<<"Source conversation not found: ", sourceConversationId>>)]
    ELSE LET source  == S.conversations[sourceConversationId]
             created == createConversation(S, newModelId, uuid).S
         IN  [S |-> Collect(
                    [conversations |->
                        [created.conversations EXCEPT ![uuid].messages = source.messages],
                     heap |-> created.heap]),
              out |-> Ok(uuid)]

\* mutant: the source is bound to the new model instead of being copied
cloneConversation_rebindsSource(S, sourceConversationId, newModelId, uuid) ==
    IF ~Known(S, sourceConversationId)
    THEN [S |-> S, out |-> Throw(<<"Source conversation not found: ", sourceConversationId>>)]
    ELSE [S |-> [conversations |->
                    [S.conversations EXCEPT ![sourceConversationId].modelId = newModelId],
                 heap |-> S.heap],
          out |-> Ok(sourceConversationId)]

\* mutant: the copy is taken without the source's latest append
cloneConversation_missesLastAppend(S, sourceConversationId, newModelId, uuid) ==
    IF ~Known(S, sourceConversationId)
    THEN [S |-> S, out |-> Throw(<<"Source conversation not found: ", sourceConversationId>>)]
    ELSE LET source  == S.conversations[sourceConversationId]
             created == createConversation(S, newModelId, uuid).S
             copy    == NewArray(created.heap)
             copied  == Slice(S.heap[source.messages], 0, -1)
         IN  [S |-> Collect(
                    [conversations |-> [created.conversations EXCEPT ![uuid].messages = copy],
                     heap |-> [b \in DOMAIN created.heap \cup {copy} |->
                                 IF b = copy THEN copied ELSE created.heap[b]]]),
              out |-> Ok(uuid)]

cloneConversation(S, sourceConversationId, newModelId, uuid) ==
    IF ~Known(S, sourceConversationId)
    THEN [S |-> S, out |-> Throw(<<"Source conversation not found: ", sourceConversationId>>)]
    ELSE LET source  == S.conversations[sourceConversationId]
             created == createConversation(S, newModelId, uuid).S
             copy    == NewArray(created.heap)
             copied  == [i \in 1..Len(S.heap[source.messages]) |->
                            ChatMessage(S.heap[source.messages][i].role,
                                        S.heap[source.messages][i].content)]
         IN  [S |-> Collect(
                    [conversations |-> [created.conversations EXCEPT ![uuid].messages = copy],
                     heap |-> [b \in DOMAIN created.heap \cup {copy} |->
                                 IF b = copy THEN copied ELSE created.heap[b]]]),
              out |-> Ok(uuid)]

getConversationState(S, conversationId) == getConversation(S, conversationId)

\* ------------------------------------------------------- OpenAIClient
\* what is put on the wire: the messages are copied before the await
OpenAIRequest(modelName, messages) ==
    [model |-> modelName,
     messages |-> [i \in 1..Len(messages) |->
                      [role |-> messages[i].role, content |-> messages[i].content]]]

\* what the provider may answer: a completion whose content is a text, is
\* empty or is absent, or a transport / HTTP failure
BackendResponses ==
    {[kind |-> "completion", content |-> c] : c \in Replies \cup {"", Undefined}}
        \cup {[kind |-> "failure", content |-> "network"]}

\* mutant: only an absent content is refused, an empty one is passed on
openaiChatResult_acceptsEmpty(response) ==
    IF response.kind = "failure"
    THEN Throw(<<"Failed to get response from OpenAI: ", response.content>>)
    ELSE IF response.content = Undefined
    THEN Throw(<<"Failed to get response from OpenAI: ", "No content in response from OpenAI">>)
    ELSE Ok([content |-> response.content])

\* OpenAIClient.chat after the await
openaiChatResult(response) ==
    IF response.kind = "failure"
    THEN Throw(<<"Failed to get response from OpenAI: ", response.content>>)
    ELSE IF ~Truthy(response.content)
    THEN Throw(<<"Failed to get response from OpenAI: ", "No content in response from OpenAI">>)
    ELSE Ok([content |-> response.content])

\* --------------------------------------------------------- configuration
configModels ==
    << [id |-> "A", modelName |-> "model-a", baseUrl |-> "https://a", apiKey |-> "key-a"],
       [id |-> "B", modelName |-> "model-b", baseUrl |-> "https://b", apiKey |-> "key-b"] >>

\* the configuration the claims on the store and on chat are checked with
Config == [models |-> configModels]

\* openaiClients: one client per configured model, keyed by model.id
openaiClients == {configModels[i].id : i \in 1..Len(configModels)}

\* config.models.find((m) => m.id === id); used only for configured ids
FindModel(id) ==
    LET i == CHOOSE k \in 1..Len(configModels) :
                /\ configModels[k].id = id
                /\ \A j \in 1..(k - 1) : configModels[j].id # id
    IN  configModels[i]

\* ------------------------------------------------------- the chat tool
ErrorResult(text) == [isError |-> TRUE, text |-> <<"Error: ">> \o text]
JsonResult(body) == [isError |-> FALSE, body |-> body]
NoResult == [isError |-> FALSE, body |-> Undefined]

Idle == [pc |-> "idle"]

\* mutant: the history is read before the user message is appended
chatSend_historyFirst(S, actualConversationId, actualModelId, message, limit) ==
    IF actualModelId \notin openaiClients
    THEN [S |-> S, await |-> FALSE,
          ret |-> ErrorResult(<<"Model not configured: ", actualModelId>>),
          slot |-> Idle]
    ELSE LET modelConfig == FindModel(actualModelId)
             read == getHistory(S, actualConversationId, limit)
             history == read.out.value
             S2 == addMessage(read.S, actualConversationId, "user", message).S
         IN  [S |-> S2, await |-> TRUE, ret |-> NoResult,
              slot |-> [pc |-> "awaiting",
                        actualConversationId |-> actualConversationId,
                        actualModelId |-> actualModelId,
                        sent |-> OpenAIRequest(modelConfig.modelName, history),
                        before |-> MessagesOf(S, actualConversationId)]]

\* mutant: the history that is sent is also kept as the conversation's messages
chatSend_storesHistory(S, actualConversationId, actualModelId, message, limit) ==
    IF actualModelId \notin openaiClients
    THEN [S |-> S, await |-> FALSE,
          ret |-> ErrorResult(<<"Model not configured: ", actualModelId>>),
          slot |-> Idle]
    ELSE LET modelConfig == FindModel(actualModelId)
             S2 == addMessage(S, actualConversationId, "user", message).S
             read == getHistory(S2, actualConversationId, limit)
             history == read.out.value
             S3 == [read.S EXCEPT
                        !.heap[read.S.conversations[actualConversationId].messages] = history]
         IN  [S |-> S3, await |-> TRUE, ret |-> NoResult,
              slot |-> [pc |-> "awaiting",
                        actualConversationId |-> actualConversationId,
                        actualModelId |-> actualModelId,
                        sent |-> OpenAIRequest(modelConfig.modelName, history),
                        before |-> MessagesOf(S, actualConversationId)]]

\* from "Validate model exists" to the await inside client.chat; `before`
\* records the target's messages as the handler found them, for the claims
chatSend(S, actualConversationId, actualModelId, message, limit) ==
    IF actualModelId \notin openaiClients
    THEN [S |-> S, await |-> FALSE,
          ret |-> ErrorResult(<<"Model not configured: ", actualModelId>>),
          slot |-> Idle]
    ELSE LET modelConfig == FindModel(actualModelId)
             S2 == addMessage(S, actualConversationId, "user", message).S
             read == getHistory(S2, actualConversationId, limit)
             history == read.out.value
         IN  [S |-> read.S, await |-> TRUE, ret |-> NoResult,
              slot |-> [pc |-> "awaiting",
                        actualConversationId |-> actualConversationId,
                        actualModelId |-> actualModelId,
                        sent |-> OpenAIRequest(modelConfig.modelName, history),
                        before |-> MessagesOf(S, actualConversationId)]]

\* mutant: a model switch continues the named conversation with the new model
chatBegin_switchInPlace(S, message, conversationId, modelId, uuid, limit) ==
    IF Truthy(conversationId)
    THEN LET existing == getConversation(S, conversationId) IN
         IF existing = Null
         THEN [S |-> S, await |-> FALSE,
               ret |-> ErrorResult(<<"Conversation not found: ", conversationId>>),
               slot |-> Idle]
         ELSE IF Truthy(modelId) /\ modelId # existing.modelId
         THEN chatSend(S, conversationId, modelId, message, limit)
         ELSE chatSend(S, conversationId, existing.modelId, message, limit)
    ELSE LET actualModelId == IF Truthy(modelId) THEN modelId ELSE configModels[1].id
         IN  chatSend(createConversation(S, actualModelId, uuid).S,
                      uuid, actualModelId, message, limit)

\* mutant: the switch test lacks its `modelId &&` guard
chatBegin_unguardedSwitch(S, message, conversationId, modelId, uuid, limit) ==
    IF Truthy(conversationId)
    THEN LET existing == getConversation(S, conversationId) IN
         IF existing = Null
         THEN [S |-> S, await |-> FALSE,
               ret |-> ErrorResult(<<"Conversation not found: ", conversationId>>),
               slot |-> Idle]
         ELSE IF modelId # existing.modelId
         THEN chatSend(cloneConversation(S, conversationId, modelId, uuid).S,
                       uuid, modelId, message, limit)
         ELSE chatSend(S, conversationId, existing.modelId, message, limit)
    ELSE LET actualModelId == IF Truthy(modelId) THEN modelId ELSE configModels[1].id
         IN  chatSend(createConversation(S, actualModelId, uuid).S,
                      uuid, actualModelId, message, limit)

\* mutant: the default model is the last configured one
chatBegin_defaultLast(S, message, conversationId, modelId, uuid, limit) ==
    IF Truthy(conversationId)
    THEN LET existing == getConversation(S, conversationId) IN
         IF existing = Null
         THEN [S |-> S, await |-> FALSE,
               ret |-> ErrorResult(<<"Conversation not found: ", conversationId>>),
               slot |-> Idle]
         ELSE IF Truthy(modelId) /\ modelId # existing.modelId
         THEN chatSend(cloneConversation(S, conversationId, modelId, uuid).S,
                       uuid, modelId, message, limit)
         ELSE chatSend(S, conversationId, existing.modelId, message, limit)
    ELSE LET actualModelId == IF Truthy(modelId) THEN modelId
                              ELSE configModels[Len(configModels)].id
         IN  chatSend(createConversation(S, actualModelId, uuid).S,
                      uuid, actualModelId, message, limit)

\* the handler up to its await: resolve the conversation, then send
chatBegin(S, message, conversationId, modelId, uuid, limit) ==
    IF Truthy(conversationId)
    THEN LET existing == getConversation(S, conversationId) IN
         IF existing = Null
         THEN [S |-> S, await |-> FALSE,
               ret |-> ErrorResult(<<"Conversation not found: ", conversationId>>),
               slot |-> Idle]
         ELSE IF Truthy(modelId) /\ modelId # existing.modelId
         THEN chatSend(cloneConversation(S, conversationId, modelId, uuid).S,
                       uuid, modelId, message, limit)
         ELSE chatSend(S, conversationId, existing.modelId, message, limit)
    ELSE LET actualModelId == IF Truthy(modelId) THEN modelId ELSE configModels[1].id
         IN  chatSend(createConversation(S, actualModelId, uuid).S,
                      uuid, actualModelId, message, limit)

\* mutant: no catch around the awaited call, the exception leaves the handler
chatFinish_noCatch(S, slot, response) ==
    LET res == openaiChatResult(response) IN
    IF res.kind = "throw"
    THEN [S |-> S, ret |-> res]
    ELSE [S |-> addMessage(S, slot.actualConversationId, "assistant", res.value.content).S,
          ret |-> JsonResult([conversationId |-> slot.actualConversationId,
                              response |-> res.value.content,
                              modelId |-> slot.actualModelId])]

\* mutant: the handler writes back the messages it read before the await,
\* with the reply added
chatFinish_writesSnapshot(S, slot, response) ==
    LET res == openaiChatResult(response) IN
    IF res.kind = "throw"
    THEN [S |-> S, ret |-> ErrorResult(res.value)]
    ELSE [S |-> [S EXCEPT !.heap[S.conversations[slot.actualConversationId].messages] =
                    Append(Append(slot.before,
                                  ChatMessage("user", slot.sent.messages[Len(slot.sent.messages)].content)),
                           ChatMessage("assistant", res.value.content))],
          ret |-> JsonResult([conversationId |-> slot.actualConversationId,
                              response |-> res.value.content,
                              modelId |-> slot.actualModelId])]

\* mutant: the result names the model by the name sent to the provider
chatFinish_returnsModelName(S, slot, response) ==
    LET res == openaiChatResult(response) IN
    IF res.kind = "throw"
    THEN [S |-> S, ret |-> ErrorResult(res.value)]
    ELSE [S |-> addMessage(S, slot.actualConversationId, "assistant", res.value.content).S,
          ret |-> JsonResult([conversationId |-> slot.actualConversationId,
                              response |-> res.value.content,
                              modelId |-> slot.sent.model])]

\* the handler after its await
chatFinish(S, slot, response) ==
    LET res == openaiChatResult(response) IN
    IF res.kind = "throw"
    THEN [S |-> S, ret |-> ErrorResult(res.value)]
    ELSE [S |-> addMessage(S, slot.actualConversationId, "assistant", res.value.content).S,
          ret |-> JsonResult([conversationId |-> slot.actualConversationId,
                              response |-> res.value.content,
                              modelId |-> slot.actualModelId])]

\* the conversation_history tool
conversationHistory(S, conversationId, limit) ==
    LET conversation == getConversationState(S, conversationId) IN
    IF conversation = Null
    THEN [S |-> S, ret |-> ErrorResult(<<"Conversation not found: ", conversationId>>)]
    ELSE LET read == getHistory(S, conversationId, limit)
         IN  [S |-> read.S,
              ret |-> JsonResult([conversationId |-> conversationId,
                                  modelId |-> conversation.modelId,
                                  messages |-> read.out.value])]

\* the list_models tool
\* mutant: the whole model entries are returned
listModels_wholeEntries(cfg) == JsonResult([models |-> cfg.models])

listModels(cfg) ==
    JsonResult([models |-> [i \in 1..Len(cfg.models) |->
                    [id |-> cfg.models[i].id,
                     modelName |-> cfg.models[i].modelName,
                     baseUrl |-> cfg.models[i].baseUrl]]])

\* ----------------------------------------------------------- bookkeeping
RECURSIVE SumLen(_, _)
SumLen(h, as) ==
    IF as = {} THEN 0
    ELSE LET a == CHOOSE x \in as : TRUE IN Len(h[a]) + SumLen(h, as \ {a})

TotalMessages == SumLen(heap, DOMAIN heap)

\* mutant: randomUUID() may return a value it returned before
FreshUUIDs_repeats == UUIDs

\* randomUUID(): identifiers are opaque, so the order they come in is fixed
FreshUUIDs ==
    {UUIDSeq[i] : i \in {k \in 1..Len(UUIDSeq) :
        /\ UUIDSeq[k] \notin DOMAIN conversations
        /\ \A j \in 1..(k - 1) : UUIDSeq[j] \in DOMAIN conversations}}

CanCreate == Cardinality(DOMAIN conversations) < MaxConvs /\ FreshUUIDs # {}

Observe(op, id, out) == [op |-> op, id |-> id, out |-> out, model |-> Undefined]

Handlers == 1..MaxHandlers

Awaiting == {h \in Handlers : handlers[h].pc = "awaiting"}

ConvArgs == IdArgs \cup {Undefined}
ModelIdArgs == {Undefined, "A", "B", "X"}         \* "X" is not configured

NoReply == [tool |-> "none", args |-> Undefined, result |-> NoResult]

\* the caller has taken the previous result
Taken == reply = NoReply

\* invocations occupy the slots in order
FirstIdle(h) == handlers[h].pc = "idle" /\ \A g \in 1..(h - 1) : handlers[g].pc # "idle"

ChatArgs(message, conversationId, modelId) ==
    [message |-> message, conversationId |-> conversationId, modelId |-> modelId]

\* does this call go through createConversation (directly or by cloning)?
TakesNewId(conversationId, modelId) ==
    \/ ~Truthy(conversationId)
    \/ /\ conversationId \in DOMAIN conversations
       /\ Truthy(modelId)
       /\ modelId # conversations[conversationId].modelId

\* ------------------------------------------- processes and the port
maxRetries == 30                     \* startServer: polls after the spawn

Launchers == {"l1", "l2"}            \* launcher processes (bin/polybrain)
PriorServer == "s0"                  \* a server process started earlier
Child(l) == IF l = "l1" THEN "s1" ELSE "s2"     \* the process launcher l spawns
Servers == {PriorServer} \cup {Child(l) : l \in Launchers}
ForeignPid == "f"
PidOrder == <<"f", "s0", "s1", "s2">>           \* the order lsof prints pids in

\* new ConversationManager(): a store of its own in every process that makes one
NewStore == [conversations |-> <<>>, heap |-> <<>>]

\* a server process: how far it has come, its exit code, and the
\* ConversationManager its POST /mcp route serves (no launcher sends such a
\* request, and other HTTP clients are left out, so it stays as constructed)
NotSpawned == [pc |-> "none", exit |-> "-", S |-> NewStore]
Spawned == [pc |-> "spawned", exit |-> "-", S |-> NewStore]
Listening == [pc |-> "listening", exit |-> "-", S |-> NewStore]
Exited(code) == [pc |-> "exited", exit |-> code, S |-> NewStore]

\* the processes of the machine: W.servers, W.foreign
World == [servers |-> servers, foreign |-> foreign]

\* processes holding a listening socket on the port
Bound(W) ==
    {s \in Servers : W.servers[s].pc \in {"testing", "listening"}}
        \cup (IF W.foreign THEN {ForeignPid} ELSE {})

Alive(W, pid) ==
    IF pid = ForeignPid THEN W.foreign
    ELSE W.servers[pid].pc \notin {"none", "exited"}

\* ------------------------------------------------------------ HTTPServer
\* setupRoutes: the status a GET is answered with
setupRoutes(path) == IF path = "/health" THEN 200 ELSE 404

\* mutant: the socket is bound with port sharing, so listen never fails
httpServerStart_sharesPort(W, s) ==
    [W |-> [W EXCEPT !.servers[s] = Listening], out |-> Ok(Undefined)]

\* start(): app.listen binds the port, or the error event rejects
httpServerStart(W, s) ==
    IF Bound(W) = {}
    THEN [W |-> [W EXCEPT !.servers[s] = Listening], out |-> Ok(Undefined)]
    ELSE [W |-> W, out |-> Throw("EADDRINUSE")]

\* --------------------------------------------------- index.js, server mode
\* isPortInUse down to its test server's first event: EADDRINUSE resolves
\* true at once, otherwise the test server holds the port until its
\* listening event is handled
isPortInUse(W, s) ==
    IF Bound(W) # {}
    THEN [W |-> W, settled |-> TRUE, out |-> Ok(TRUE)]
    ELSE [W |-> [W EXCEPT !.servers[s].pc = "testing"], settled |-> FALSE,
          out |-> Ok(FALSE)]

\* the listening event: server.close(), resolve(false)
isPortInUseListening(W, s) == [W EXCEPT !.servers[s].pc = "starting"]

\* mutant: the server goes on to listen without testing the port
startServerOnly_skipsPortCheck(W, s) == [W EXCEPT !.servers[s].pc = "starting"]

\* startServerOnly down to the await of isPortInUse, and through
\* "already running" and exit(0) when the port is taken
startServerOnly(W, s) ==
    LET portInUse == isPortInUse(W, s) IN
    IF portInUse.settled /\ portInUse.out.value
    THEN [portInUse.W EXCEPT !.servers[s] = Exited("0")]
    ELSE portInUse.W

\* startServerOnly from "Starting Polybrain MCP Server" on
startServerOnlyListen(W, s) ==
    LET r == httpServerStart(W, s) IN
    IF r.out.kind = "throw"
    THEN [r.W EXCEPT !.servers[s] = Exited("1")]
    ELSE r.W

\* ---------------------------------------------------------------- logger
\* A process P (any record with the fields currentLogLevel, stdout, stderr)
\* writes lines to its two output streams.
LOG_LEVELS == [debug |-> 0, info |-> 1, warn |-> 2, error |-> 3]
LogLevels == DOMAIN LOG_LEVELS

\* a written line: who wrote it, and the message with the error message put
\* into it or handed over as context (<<>> if none)
NoContext == <<>>
LogLine(level, message, context) ==
    [by |-> "logger", level |-> level, message |-> message, error |-> context]
ConsoleLine(message, error) ==
    [by |-> "console", level |-> "-", message |-> message, error |-> error]

\* console.log writes to stdout, console.warn and console.error to stderr
consoleLog(P, line) == [P EXCEPT !.stdout = Append(@, line)]
consoleWarn(P, line) == [P EXCEPT !.stderr = Append(@, line)]
consoleError(P, line) == [P EXCEPT !.stderr = Append(@, line)]

setLogLevel(P, level) == [P EXCEPT !.currentLogLevel = level]

\* mutant: every level is written, whatever the current level
shouldLog_always(P, level) == LOG_LEVELS[level] >= LOG_LEVELS["debug"]

shouldLog(P, level) == LOG_LEVELS[level] >= LOG_LEVELS[P.currentLogLevel]

\* logger.debug, logger.info, logger.warn, logger.error
logger(P, level, message, context) ==
    IF ~shouldLog(P, level) THEN P
    ELSE IF level \in {"debug", "info"} THEN consoleLog(P, LogLine(level, message, context))
    ELSE IF level = "warn" THEN consoleWarn(P, LogLine(level, message, context))
    ELSE consoleError(P, LogLine(level, message, context))

\* debugLog of launcher.js and of bin/polybrain.js: logs only when
\* POLYBRAIN_DEBUG is "true"
debugLog(P, level, message, context) ==
    IF P.debug THEN logger(P, level, message, context) ELSE P

\* ---------------------------------------------------- configuration loader
\* An error message is the sequence of its fixed parts and its parameters.
\* String.prototype.includes for a search string that is one such part (no
\* part of the messages below contains another part within it).
includes(message, searchString) ==
    \E i \in DOMAIN message : message[i] = searchString

\* what a launcher process finds when it starts: the three POLYBRAIN_* model
\* variables set or not, the variables `${...}` may refer to, and the file
\* at the configuration path
EnvRef == "${KEY}"
VarName(value) == "KEY"              \* the name between `${` and `}`
NoFile == [kind |-> "none"]
Unreadable == [kind |-> "unreadable", error |-> <<"ENOENT: no such file or directory">>]
Yaml(raw) == [kind |-> "yaml", raw |-> raw]

RawModel(id, apiKey, provider) ==
    [type |-> "object", id |-> id, modelName |-> "model-a", baseUrl |-> "https://a",
     apiKey |-> apiKey, provider |-> provider]

RawModels ==
    {RawModel("A", "key-a", Undefined), RawModel("A", "key-a", "openai"),
     RawModel("A", EnvRef, Undefined), RawModel(Undefined, "key-a", Undefined),
     RawModel("A", Undefined, Undefined), RawModel("A", "key-a", "azure"),
     [type |-> "string"]}

LogLevelArgs == {Undefined, "debug"}     \* logLevel of the file, or none

\* a YAML value that is an array, or is not (absent, a scalar)
Array(items) == [isArray |-> TRUE, items |-> items]
NotArray == [isArray |-> FALSE, items |-> <<>>]

RawConfigs ==
    {[null |-> FALSE, models |-> m, logLevel |-> lv] :
        m \in {NotArray, Array(<<>>)} \cup {Array(<<x>>) : x \in RawModels},
        lv \in LogLevelArgs}

\* what loadConfigFile returns without a configuration path
NullConfig == [null |-> TRUE, models |-> NotArray, logLevel |-> Undefined]

ConfigSources ==
    {[simple |-> TRUE, env |-> {}, file |-> NoFile]}
        \cup {[simple |-> FALSE, env |-> e, file |-> f] :
                e \in {{}, {"KEY"}},
                f \in {NoFile, Unreadable} \cup {Yaml(raw) : raw \in RawConfigs}}

\* the first `${VAR}` of a model's fields, in the order Object.entries
\* gives them, whose variable is not set
ModelFields == <<"id", "modelName", "baseUrl", "apiKey", "provider">>

Unresolved(model, env) ==
    IF model.type # "object" THEN <<>>
    ELSE SelectSeq(ModelFields,
            LAMBDA k : model[k] = EnvRef /\ VarName(model[k]) \notin env)

\* resolveEnvVars on the whole raw configuration
resolveEnvVars(raw, env) ==
    LET models == raw.models.items
        bad == {i \in DOMAIN models : Unresolved(models[i], env) # <<>>}
    IN  IF bad # {}
        THEN LET i == CHOOSE k \in bad : \A j \in bad : k <= j IN
             Throw(<<"Environment variable not found", ": ",
                     VarName(models[i][Unresolved(models[i], env)[1]])>>)
        ELSE Ok([raw EXCEPT !.models.items =
                    [i \in DOMAIN models |->
                        IF models[i].type # "object" THEN models[i]
                        ELSE [k \in DOMAIN models[i] |->
                                IF models[i][k] = EnvRef THEN "resolved"
                                ELSE models[i][k]]]])

\* the test one model of the array is put to
parseModel(model) ==
    IF model.type # "object" THEN Throw(<<"Each model must be an object">>)
    ELSE IF ~Truthy(model.id) THEN Throw(<<"Model must have", " 'id' field">>)
    ELSE IF ~Truthy(model.modelName)
    THEN Throw(<<"Model must have", " 'modelName' field for API calls">>)
    ELSE IF ~Truthy(model.baseUrl) THEN Throw(<<"Model must have", " 'baseUrl' field">>)
    ELSE IF ~Truthy(model.apiKey) THEN Throw(<<"Model must have", " 'apiKey' field">>)
    ELSE IF Truthy(model.provider) /\ model.provider \notin {"openai", "openrouter"}
    THEN Throw(<<"Invalid provider '", model.provider,
                 "'. Must be 'openai' or 'openrouter'">>)
    ELSE Ok(model.id)

parseYamlConfig(rawConfig) ==
    IF ~rawConfig.models.isArray \/ Len(rawConfig.models.items) = 0
    THEN Throw(<<"Config must have at least one model in the 'models' array">>)
    ELSE LET models == rawConfig.models.items
             parsed == [i \in DOMAIN models |-> parseModel(models[i])]
             bad == {i \in DOMAIN parsed : parsed[i].kind = "throw"}
         IN  IF bad # {}
             THEN parsed[CHOOSE k \in bad : \A j \in bad : k <= j]
             ELSE Ok([models |-> [i \in DOMAIN parsed |-> parsed[i].value],
                      logLevel |-> IF Truthy(rawConfig.logLevel) THEN rawConfig.logLevel
                                   ELSE "info"])

\* createSimpleConfig, reached only with the three variables set
createSimpleConfig(P) ==
    [P |-> logger(P, "debug", "Using simple environment variable config", NoContext),
     out |-> Ok([models |-> <<"A">>, logLevel |-> "info"])]

\* loadConfigFile: the file's content, null without a path, or the read's
\* or the parser's error, logged and thrown on
loadConfigFile(P, file) ==
    IF file.kind = "none" THEN [P |-> P, out |-> Ok(NullConfig)]
    ELSE IF file.kind = "unreadable"
    THEN [P |-> logger(P, "error", "Failed to load config file", file.error), out |-> Throw(file.error)]
    ELSE [P |-> logger(P, "debug", "Loaded config from file", NoContext), out |-> Ok(file.raw)]

NoConfigurationFound ==
    <<"No configuration found",
      ". Set POLYBRAIN_BASE_URL, POLYBRAIN_API_KEY, and POLYBRAIN_MODEL_NAME environment variables, or create ~/.polybrain.yaml">>

loadConfig(P, source) ==
    IF source.simple
    THEN createSimpleConfig(logger(P, "info", "Using simple environment variable configuration", NoContext))
    ELSE LET read == loadConfigFile(P, source.file) IN
         IF read.out.kind = "throw" THEN read
         ELSE IF read.out.value.null
         THEN [P |-> read.P, out |-> Throw(NoConfigurationFound)]
         ELSE LET P2 == logger(read.P, "info", "Using YAML configuration file", NoContext)
                  resolvedConfig == resolveEnvVars(read.out.value, source.env)
              IN  IF resolvedConfig.kind = "throw"
                  THEN [P |-> P2, out |-> resolvedConfig]
                  ELSE [P |-> P2, out |-> parseYamlConfig(resolvedConfig.value)]

\* -------------------------------------------------------- ServerLauncher
NoProbe == [kind |-> "none", status |-> 0]
Response(status) == [kind |-> "response", status |-> status]
ConnError == [kind |-> "error", status |-> 0]
Timeout == [kind |-> "timeout", status |-> 0]

\* what http.get on /health can end in: a polybrain server answers by its
\* route table unless the 2 s run out first; a foreign holder answers
\* something else or nothing; a bare test server never answers; a free port
\* refuses the connection
ProbeOutcomes(W) ==
    IF \E s \in Servers : W.servers[s].pc = "listening"
    THEN {Response(setupRoutes("/health")), Timeout}
    ELSE IF W.foreign
    THEN {Response(404), ConnError, Timeout}
    ELSE IF \E s \in Servers : W.servers[s].pc = "testing"
    THEN {ConnError, Timeout}
    ELSE {ConnError}

\* mutant: any response counts as running
isServerRunning_anyStatus(outcome) ==
    Ok(outcome.kind = "response")

\* the promise isServerRunning returns, settled
isServerRunning(outcome) ==
    Ok(outcome.kind = "response" /\ outcome.status = 200)

\* a launcher process: its command line and POLYBRAIN_DEBUG, the logger's
\* level, what it has written and its exit code; of its ServerLauncher call
\* where it stands, startServer's `retries`, the pids killServerByPort loops
\* over, the error it threw; the ConversationManager of its tools and the
\* chat invocation in flight; and, for the record, the isServerRunning calls
\* made, the processes spawned, the last probe's end and answer, the pids
\* `kill -9` was run on, the ensureServerRunning calls and the tool
\* invocations handled
NotInvoked ==
    [pc |-> "idle", retries |-> 0, listed |-> <<>>, next |-> 1, error |-> Undefined,
     probes |-> 0, spawns |-> 0, probe |-> NoProbe, isRunning |-> FALSE,
     attempts |-> <<>>,
     argv |-> Undefined, debug |-> FALSE, currentLogLevel |-> "info",
     stdout |-> <<>>, stderr |-> <<>>, exit |-> "-", caught |-> <<>>,
     S |-> NewStore, slot |-> Idle, result |-> NoResult,
     ensures |-> 0, calls |-> 0]

StartupTimeout == "Server failed to start within timeout"

\* startServer down to its first await: spawn, unref, retries = 0
startServer(L, W, l) ==
    [L |-> [debugLog(L, "debug", "Starting HTTP server", NoContext)
                EXCEPT !.pc = "polling", !.spawns = @ + 1, !.retries = 0],
     W |-> [W EXCEPT !.servers[Child(l)] = Spawned]]

\* the catch of ensureServerRunning
ensureServerRunningCatch(L, error) ==
    [debugLog(L, "error", "Error ensuring server is running", <<error>>)
        EXCEPT !.pc = "failed", !.error = error]

\* the catch of startServer, and the one of ensureServerRunning it throws on to
startServerCatch(L, error) ==
    ensureServerRunningCatch(
        debugLog(L, "error", "Failed to start HTTP server", <<error>>), error)

\* mutant: the server is started whatever the probe answered
ensureServerRunning_alwaysStarts(L, W, l, outcome) ==
    LET r == isServerRunning(outcome)
        probed == [L EXCEPT !.probes = @ + 1, !.ensures = @ + 1]
    IN  IF r.kind = "throw"
        THEN [L |-> ensureServerRunningCatch(probed, r.value), W |-> W]
        ELSE startServer([probed EXCEPT !.isRunning = r.value], W, l)

\* ensureServerRunning from the answer to its probe on
ensureServerRunning(L, W, l, outcome) ==
    LET r == isServerRunning(outcome)
        probed == [L EXCEPT !.probes = @ + 1, !.ensures = @ + 1]
    IN  IF r.kind = "throw"
        THEN [L |-> ensureServerRunningCatch(probed, r.value), W |-> W]
        ELSE IF ~r.value
        THEN startServer(
                debugLog([probed EXCEPT !.isRunning = FALSE],
                         "info", "Server not running, starting it...", NoContext),
                W, l)
        ELSE [L |-> [debugLog(probed, "debug", "Server already running", NoContext)
                        EXCEPT !.pc = "ready", !.isRunning = TRUE],
              W |-> W]

\* startServer returns, and ensureServerRunning with it
startServerReady(L) ==
    [debugLog(L, "info", "HTTP server is ready", NoContext)
        EXCEPT !.pc = "ready", !.isRunning = TRUE]

\* one turn of startServer's loop: from the answer to a poll, through the
\* one-second wait, to the next poll or the end
\* mutant: the loop gives up as soon as the spawned process has exited
startServerPoll_watchesChild(L, W, l, outcome) ==
    LET r == isServerRunning(outcome)
        probed == [L EXCEPT !.probes = @ + 1]
    IN  IF r.kind = "throw"
        THEN startServerCatch(probed, r.value)
        ELSE IF r.value
        THEN startServerReady(probed)
        ELSE IF W.servers[Child(l)].pc = "exited"
        THEN startServerCatch([probed EXCEPT !.isRunning = FALSE], "Server process exited")
        ELSE LET retries == L.retries + 1 IN
             IF retries < maxRetries
             THEN [probed EXCEPT !.retries = retries, !.isRunning = FALSE]
             ELSE startServerCatch([probed EXCEPT !.retries = retries, !.isRunning = FALSE],
                                   StartupTimeout)

\* mutant: the loop runs while retries <= maxRetries
startServerPoll_oneMorePoll(L, W, l, outcome) ==
    LET r == isServerRunning(outcome)
        probed == [L EXCEPT !.probes = @ + 1]
    IN  IF r.kind = "throw"
        THEN startServerCatch(probed, r.value)
        ELSE IF r.value
        THEN startServerReady(probed)
        ELSE LET retries == L.retries + 1 IN
             IF retries <= maxRetries
             THEN [probed EXCEPT !.retries = retries, !.isRunning = FALSE]
             ELSE startServerCatch([probed EXCEPT !.retries = retries, !.isRunning = FALSE],
                                   StartupTimeout)

startServerPoll(L, W, l, outcome) ==
    LET r == isServerRunning(outcome)
        probed == [L EXCEPT !.probes = @ + 1]
    IN  IF r.kind = "throw"
        THEN startServerCatch(probed, r.value)
        ELSE IF r.value
        THEN startServerReady(probed)
        ELSE LET retries == L.retries + 1 IN
             IF retries < maxRetries
             THEN [probed EXCEPT !.retries = retries, !.isRunning = FALSE]
             ELSE startServerCatch([probed EXCEPT !.retries = retries, !.isRunning = FALSE],
                                   StartupTimeout)

\* `lsof -i :port -t`: the pids with a socket on the port, one per line
lsof(W) == SelectSeq(PidOrder, LAMBDA pid : pid \in Bound(W))

\* killServerByPort down to the loop over the pids: lsof failing, or
\* printing nothing, ends the call
killServerByPort(L, W, lsofRuns) ==
    LET pids == IF lsofRuns THEN lsof(W) ELSE <<>>
        L1 == debugLog(L, "debug", "Attempting to kill server on port", NoContext)
    IN  IF ~lsofRuns
        THEN [debugLog(L1, "debug", "lsof command failed or no process on port", NoContext)
                EXCEPT !.pc = "restarted"]
        ELSE IF pids = <<>>
        THEN [debugLog(L1, "debug", "No process found on port", NoContext)
                EXCEPT !.pc = "restarted"]
        ELSE [L1 EXCEPT !.pc = "killing", !.listed = pids, !.next = 1]

\* `kill -9 pid`: ends a live process the caller may signal, fails otherwise
kill9(W, pid, permitted) ==
    IF ~Alive(W, pid) \/ ~permitted
    THEN [W |-> W, out |-> Throw("kill failed")]
    ELSE [W |-> IF pid = ForeignPid
                THEN [W EXCEPT !.foreign = FALSE]
                ELSE [W EXCEPT !.servers[pid] = Exited("SIGKILL")],
          out |-> Ok(Undefined)]

\* what killServerByPort logs after a kill
killLogged(L, r) ==
    IF r.out.kind = "throw"
    THEN debugLog(L, "debug", "Failed to kill process", NoContext)
    ELSE debugLog(L, "info", "Killed server process", NoContext)

\* mutant: a failing kill is tried again
killServerByPortNext_retriesKill(L, W, permitted) ==
    LET pid == L.listed[L.next]
        r == kill9(W, pid, permitted)
        L2 == [killLogged(L, r) EXCEPT !.attempts = Append(@, pid),
                        !.next = IF r.out.kind = "throw" THEN @ ELSE @ + 1]
    IN  [L |-> IF L2.next > Len(L2.listed) THEN [L2 EXCEPT !.pc = "restarted"] ELSE L2,
         W |-> r.W]

\* one turn of killServerByPort's loop; a failing kill is caught and skipped
killServerByPortNext(L, W, permitted) ==
    LET pid == L.listed[L.next]
        r == kill9(W, pid, permitted)
        L2 == [killLogged(L, r) EXCEPT !.attempts = Append(@, pid), !.next = @ + 1]
    IN  [L |-> IF L2.next > Len(L2.listed) THEN [L2 EXCEPT !.pc = "restarted"] ELSE L2,
         W |-> r.W]

\* ------------------------------------------------------- bin/polybrain.js
Argv == {Undefined, "--restart"}     \* process.argv[2]

\* process.exit(code)
exit(P, code) == [P EXCEPT !.pc = "exited", !.exit = code]

isConfigError(errorMessage) ==
    \/ includes(errorMessage, "No configuration found")
    \/ includes(errorMessage, "Failed to load config")
    \/ includes(errorMessage, "Environment variable not found")
    \/ includes(errorMessage, "Model must have")

\* the catch of main's stdio branch
mainCatch(P, errorMessage) ==
    exit([(IF isConfigError(errorMessage)
           THEN consoleError(P, ConsoleLine("Error: ", errorMessage))
           ELSE debugLog(P, "error", "Failed to start MCP server", errorMessage))
            EXCEPT !.caught = errorMessage],
         "1")

\* main with --restart, down to the call of killServerByPort
mainRestart(P, source) ==
    LET P1 == IF ~P.debug THEN setLogLevel(P, "error") ELSE P
        config == loadConfig(P1, source)
    IN  IF config.out.kind = "throw"
        THEN exit([consoleError(config.P,
                                ConsoleLine("Error during restart: ", config.out.value))
                    EXCEPT !.caught = config.out.value],
                  "1")
        ELSE [config.P EXCEPT !.pc = "idle"]

\* main with --restart, after killServerByPort has returned
mainRestarted(P) ==
    exit(consoleLog(P, ConsoleLine("Server restarted successfully", NoContext)), "0")

\* mutant: the tools are registered and the transport connected right after
\* the configuration is loaded, without waiting for ensureServerRunning
mainStdio_connectsAtOnce(P, source) ==
    LET P1 == IF ~P.debug THEN setLogLevel(P, "error") ELSE P
        config == loadConfig(P1, source)
    IN  IF config.out.kind = "throw"
        THEN mainCatch(config.P, config.out.value)
        ELSE [(IF config.P.debug
               THEN debugLog(setLogLevel(config.P, config.out.value.logLevel),
                             "debug", "Polybrain launcher started (debug mode)", NoContext)
               ELSE config.P)
                EXCEPT !.pc = "serving"]

\* main without --restart, down to the call of ensureServerRunning
mainStdio(P, source) ==
    LET P1 == IF ~P.debug THEN setLogLevel(P, "error") ELSE P
        config == loadConfig(P1, source)
    IN  IF config.out.kind = "throw"
        THEN mainCatch(config.P, config.out.value)
        ELSE [(IF config.P.debug
               THEN debugLog(setLogLevel(config.P, config.out.value.logLevel),
                             "debug", "Polybrain launcher started (debug mode)", NoContext)
               ELSE config.P)
                EXCEPT !.pc = "idle"]

main(P, source) ==
    IF P.argv = "--restart" THEN mainRestart(P, source) ELSE mainStdio(P, source)

\* main after ensureServerRunning has returned: the manager, the clients and
\* the tools are set up and the stdio transport is connected
mainConnect(P) ==
    [debugLog(debugLog(P, "debug", "HTTP server is ready, starting MCP stdio mode", NoContext),
              "debug", "MCP server connected via stdio", NoContext)
        EXCEPT !.pc = "serving", !.S = NewStore]

\* ------------------------------------------ the launcher's tools, over stdio
DefaultTruncateLimit == 500          \* config.truncateLimit when none is set

\* the transport writes a tool's result to stdout
ProtocolLine == [by |-> "protocol", level |-> "-", message |-> "result", error |-> NoContext]

toolReturn(P, ret) ==
    [consoleLog(P, ProtocolLine) EXCEPT !.result = ret, !.slot = Idle]

\* the chat handler down to its await, or to its early return
toolChat(P, message, conversationId, modelId, uuid) ==
    LET P1 == logger(P, "debug", "Chat tool called", NoContext)
        r == chatBegin(P1.S, message, conversationId, modelId, uuid, DefaultTruncateLimit)
        P2 == [P1 EXCEPT !.S = r.S, !.calls = @ + 1]
    IN  IF r.await
        THEN [logger(P2, "debug", "Sending chat request to OpenAI", NoContext)
                EXCEPT !.slot = r.slot]
        ELSE toolReturn(P2, r.ret)

\* the chat handler from the backend's answer on
toolChatComplete(P, response) ==
    LET r == chatFinish(P.S, P.slot, response)
        P1 == IF r.ret.isError
              THEN logger(logger(P, "error", "OpenAI API error", r.ret.text),
                          "error", "Chat tool error", r.ret.text)
              ELSE logger(logger(P, "debug", "Received response from OpenAI", NoContext),
                          "info", "Chat completed", NoContext)
    IN  toolReturn([P1 EXCEPT !.S = r.S], r.ret)

\* ------------------------------------------------------------------ Init
Init ==
    /\ truncateLimit \in 0..MaxLimit
    /\ conversations = <<>>
    /\ heap = <<>>
    /\ last = Observe("new", Undefined, Ok(Undefined))
    /\ appended = <<>>
    /\ handlers = [h \in Handlers |-> Idle]
    /\ chats = 0
    /\ reply = NoReply
    /\ toolsConfig = Config
    /\ launcher = <<>>             \* one process, its store and its tools:
    /\ servers = <<>>              \* no launcher and no other process takes part
    /\ foreign = FALSE

\* --------------------------------------------- calls on the manager's API
Create ==
    /\ CanCreate
    /\ \E modelId \in ModelArgs, uuid \in FreshUUIDs :
        LET r == createConversation(Store, modelId, uuid) IN
        /\ conversations' = r.S.conversations
        /\ heap' = r.S.heap
        /\ last' = Observe("create", Undefined, r.out)
        /\ appended' = [c \in DOMAIN appended \cup {uuid} |->
                            IF c = uuid THEN <<>> ELSE appended[c]]
    /\ UNCHANGED <<truncateLimit, handlers, chats, reply, launchVars, toolsConfig>>

Get ==
    /\ \E id \in IdArgs :
        last' = Observe("get", id, Ok(getConversation(Store, id)))
    /\ UNCHANGED <<truncateLimit, conversations, heap, appended, handlers, chats, reply, launchVars, toolsConfig>>

AddMessage ==
    /\ TotalMessages < MaxTotal
    /\ \E id \in IdArgs, role \in Roles :
      \E content \in (IF role = "user" THEN {"a"} ELSE Replies) :
        LET r == addMessage(Store, id, role, content) IN
        /\ conversations' = r.S.conversations
        /\ heap' = r.S.heap
        /\ last' = Observe("append", id, r.out)
        /\ appended' = IF id \in DOMAIN appended
                       THEN [appended EXCEPT ![id] = Append(@, ChatMessage(role, content))]
                       ELSE appended
    /\ UNCHANGED <<truncateLimit, handlers, chats, reply, launchVars, toolsConfig>>

History ==
    /\ \E id \in IdArgs :
        LET r == getHistory(Store, id, truncateLimit) IN
        /\ conversations' = r.S.conversations
        /\ heap' = r.S.heap
        /\ last' = Observe("history", id, r.out)
    /\ UNCHANGED <<truncateLimit, appended, handlers, chats, reply, launchVars, toolsConfig>>

Clone ==
    /\ \E src \in IdArgs, newModelId \in ModelArgs, uuid \in UUIDs :
        /\ Known(Store, src) =>
            /\ CanCreate
            /\ uuid \in FreshUUIDs
            /\ TotalMessages + Len(MessagesOf(Store, src)) <= MaxTotal
        /\ LET r == cloneConversation(Store, src, newModelId, uuid) IN
            /\ conversations' = r.S.conversations
            /\ heap' = r.S.heap
            /\ last' = [op |-> "clone", id |-> src, out |-> r.out, model |-> newModelId]
    /\ UNCHANGED <<truncateLimit, appended, handlers, chats, reply, launchVars, toolsConfig>>

NextManager == Create \/ Get \/ AddMessage \/ History \/ Clone

SpecManager == Init /\ [][NextManager]_vars

\* ----------------------------------------------------- tool invocations
ChatStart(h) ==
    /\ Taken
    /\ FirstIdle(h)
    /\ \E message \in Contents, conversationId \in ConvArgs,
          modelId \in ModelIdArgs, uuid \in UUIDs :
        /\ TakesNewId(conversationId, modelId) => CanCreate /\ uuid \in FreshUUIDs
        /\ chats < MaxChats
        /\ LET r == chatBegin(Store, message, conversationId, modelId, uuid, truncateLimit) IN
            /\ conversations' = r.S.conversations
            /\ heap' = r.S.heap
            /\ handlers' = [handlers EXCEPT ![h] =
                    IF r.await
                    THEN [pc |-> "awaiting",
                          args |-> ChatArgs(message, conversationId, modelId),
                          actualConversationId |-> r.slot.actualConversationId,
                          actualModelId |-> r.slot.actualModelId,
                          sent |-> r.slot.sent,
                          before |-> r.slot.before]
                    ELSE Idle]
            /\ reply' = IF r.await THEN reply
                        ELSE [tool |-> "chat",
                              args |-> ChatArgs(message, conversationId, modelId),
                              result |-> r.ret]
            /\ chats' = IF r.await \/ r.S # Store THEN chats + 1 ELSE chats
    /\ UNCHANGED <<truncateLimit, last, appended, launchVars, toolsConfig>>

ChatComplete(h) ==
    /\ Taken
    /\ handlers[h].pc = "awaiting"
    /\ \E response \in BackendResponses :
        LET r == chatFinish(Store, handlers[h], response) IN
        /\ conversations' = r.S.conversations
        /\ heap' = r.S.heap
        /\ reply' = [tool |-> "chat", args |-> handlers[h].args, result |-> r.ret]
    /\ handlers' = [handlers EXCEPT ![h] = Idle]
    /\ UNCHANGED <<truncateLimit, last, appended, chats, launchVars, toolsConfig>>

ConversationHistory ==
    /\ Taken
    /\ \E conversationId \in IdArgs :
        LET r == conversationHistory(Store, conversationId, truncateLimit) IN
        /\ conversations' = r.S.conversations
        /\ heap' = r.S.heap
        /\ reply' = [tool |-> "conversation_history",
                     args |-> [conversationId |-> conversationId],
                     result |-> r.ret]
    /\ UNCHANGED <<truncateLimit, last, appended, handlers, chats, launchVars, toolsConfig>>

ListModels ==
    /\ Taken
    /\ reply' = [tool |-> "list_models", args |-> Undefined, result |-> listModels(toolsConfig)]
    /\ UNCHANGED <<truncateLimit, conversations, heap, last, appended, handlers, chats, launchVars, toolsConfig>>

\* the transport writes the result out
Deliver ==
    /\ ~Taken
    /\ reply' = NoReply
    /\ UNCHANGED <<truncateLimit, conversations, heap, last, appended, handlers, chats, launchVars, toolsConfig>>

Next ==
    \/ \E h \in Handlers : ChatStart(h)
    \/ \E h \in Handlers : ChatComplete(h)
    \/ ConversationHistory
    \/ ListModels
    \/ Deliver

Spec == Init /\ [][Next]_vars

\* list_models under any configuration: one or two models, each with its
\* id, name, endpoint, key and provider
ApiKeys == {"key-a", "key-b"}
ConfigEntries ==
    {[id |-> id, modelName |-> "model-a", baseUrl |-> url, apiKey |-> key,
      provider |-> "openai"] :
        id \in {"A", "B"}, url \in {"https://a", "https://b"}, key \in ApiKeys}

Configs ==
    {[models |-> <<m>>] : m \in ConfigEntries}
        \cup {[models |-> <<m, n>>] : m \in ConfigEntries, n \in ConfigEntries}

InitListModels ==
    /\ truncateLimit = 0
    /\ conversations = <<>>
    /\ heap = <<>>
    /\ last = Observe("new", Undefined, Ok(Undefined))
    /\ appended = <<>>
    /\ handlers = [h \in Handlers |-> Idle]
    /\ chats = 0
    /\ reply = NoReply
    /\ toolsConfig \in Configs
    /\ launcher = <<>>
    /\ servers = <<>>
    /\ foreign = FALSE

NextListModels == ListModels \/ Deliver

SpecListModels == InitListModels /\ [][NextListModels]_vars

TypeOK ==
    /\ truncateLimit \in 0..MaxLimit
    /\ DOMAIN conversations \subseteq UUIDs
    /\ DOMAIN heap \subseteq Addrs
    /\ \A c \in DOMAIN conversations : conversations[c].messages \in DOMAIN heap
    /\ \A a \in DOMAIN heap : \A i \in 1..Len(heap[a]) : heap[a][i] \in Messages

\* ------------------------------------------------- the launcher side
\* before any launcher runs: the port is free, or a server started earlier
\* serves on it, or a foreign process holds it
\* main has loaded a valid configuration without POLYBRAIN_DEBUG and calls
\* its ServerLauncher
Invoked(argv) == [NotInvoked EXCEPT !.argv = argv, !.currentLogLevel = "error"]

InitLauncher ==
    /\ truncateLimit = 0
    /\ conversations = <<>>
    /\ heap = <<>>
    /\ last = Observe("new", Undefined, Ok(Undefined))
    /\ appended = <<>>
    /\ handlers = [h \in Handlers |-> Idle]
    /\ chats = 0
    /\ reply = NoReply
    /\ toolsConfig = Config
    /\ launcher \in [Launchers -> {Invoked(argv) : argv \in Argv}]
    /\ \E prior \in {NotSpawned, Listening} :
          servers = [s \in Servers |-> IF s = PriorServer THEN prior ELSE NotSpawned]
    /\ foreign \in BOOLEAN
    /\ ~(foreign /\ servers[PriorServer] = Listening)

storeVars == <<truncateLimit, conversations, heap, last, appended, handlers, chats, reply,
               toolsConfig>>

\* main() without --restart: ensureServerRunning is called and its probe answered
EnsureServerRunning(l) ==
    /\ launcher[l].pc = "idle"
    /\ launcher[l].argv # "--restart"
    /\ \E outcome \in ProbeOutcomes(World) :
        LET r == ensureServerRunning(launcher[l], World, l, outcome) IN
        /\ launcher' = [launcher EXCEPT ![l] = [r.L EXCEPT !.probe = outcome]]
        /\ servers' = r.W.servers
        /\ foreign' = r.W.foreign
    /\ UNCHANGED storeVars

\* a poll of startServer's loop is answered
StartServerPoll(l) ==
    /\ launcher[l].pc = "polling"
    /\ \E outcome \in ProbeOutcomes(World) :
        launcher' = [launcher EXCEPT ![l] =
                        [startServerPoll(@, World, l, outcome) EXCEPT !.probe = outcome]]
    /\ UNCHANGED <<storeVars, servers, foreign>>

\* main() with --restart: killServerByPort runs lsof
KillServerByPort(l) ==
    /\ launcher[l].pc = "idle"
    /\ launcher[l].argv = "--restart"
    /\ \E lsofRuns \in BOOLEAN :
        launcher' = [launcher EXCEPT ![l] = killServerByPort(@, World, lsofRuns)]
    /\ UNCHANGED <<storeVars, servers, foreign>>

\* killServerByPort kills the next pid of its list
KillServerByPortNext(l) ==
    /\ launcher[l].pc = "killing"
    /\ \E permitted \in BOOLEAN :
        LET r == killServerByPortNext(launcher[l], World, permitted) IN
        /\ launcher' = [launcher EXCEPT ![l] = r.L]
        /\ servers' = r.W.servers
        /\ foreign' = r.W.foreign
    /\ UNCHANGED storeVars

\* a spawned server process reaches isPortInUse
StartServerOnly(s) ==
    /\ servers[s].pc = "spawned"
    /\ servers' = startServerOnly(World, s).servers
    /\ UNCHANGED <<storeVars, launcher, foreign>>

\* its test server's listening event
IsPortInUseListening(s) ==
    /\ servers[s].pc = "testing"
    /\ servers' = isPortInUseListening(World, s).servers
    /\ UNCHANGED <<storeVars, launcher, foreign>>

\* its HTTP server is started
HttpServerStart(s) ==
    /\ servers[s].pc = "starting"
    /\ servers' = startServerOnlyListen(World, s).servers
    /\ UNCHANGED <<storeVars, launcher, foreign>>

LauncherStep(l) ==
    \/ EnsureServerRunning(l)
    \/ StartServerPoll(l)
    \/ KillServerByPort(l)
    \/ KillServerByPortNext(l)

ServerStep(s) == StartServerOnly(s) \/ IsPortInUseListening(s) \/ HttpServerStart(s)

NextLauncher ==
    \/ \E l \in Launchers : LauncherStep(l)
    \/ \E s \in Servers : ServerStep(s)

SpecLauncher == InitLauncher /\ [][NextLauncher]_vars

\* A probe always settles (answer, error or the 2 s timeout), timers fire,
\* lsof and kill return, and the operating system runs every process: a
\* call that has begun, and a process that was spawned, take their next step.
\* Whether a launcher is invoked at all is up to its user.
Fairness ==
    /\ \A l \in Launchers :
        /\ WF_vars(StartServerPoll(l))
        /\ WF_vars(KillServerByPortNext(l))
    /\ \A s \in Servers : WF_vars(ServerStep(s))

SpecLauncherFair == SpecLauncher /\ Fairness

TypeOKLauncher ==
    /\ \A l \in Launchers :
        /\ launcher[l].pc \in {"start", "idle", "polling", "ready", "failed", "killing",
                                "restarted", "serving", "exited"}
        /\ launcher[l].retries \in 0..maxRetries
    /\ \A s \in Servers :
        servers[s].pc \in {"none", "spawned", "testing", "starting", "listening", "exited"}
    /\ foreign \in BOOLEAN

\* ------------------------------------------- the launcher as a process
\* Two processes are started, each with its command line, its environment
\* and the configuration its working directory gives it: a launcher or a
\* restart command, and an administrator's restart command.
NotStarted(argv, debug) ==
    [NotInvoked EXCEPT !.pc = "start", !.argv = argv, !.debug = debug]

Administrator == "l2"

InitMain ==
    /\ truncateLimit = 0
    /\ conversations = <<>>
    /\ heap = <<>>
    /\ last = Observe("new", Undefined, Ok(Undefined))
    /\ appended = <<>>
    /\ handlers = [h \in Handlers |-> Idle]
    /\ chats = 0
    /\ reply = NoReply
    /\ toolsConfig = Config
    /\ launcher \in [Launchers -> {NotStarted(argv, debug) : argv \in Argv, debug \in BOOLEAN}]
    /\ launcher[Administrator].argv = "--restart"
    /\ \E prior \in {NotSpawned, Listening} :
          servers = [s \in Servers |-> IF s = PriorServer THEN prior ELSE NotSpawned]
    /\ foreign \in BOOLEAN
    /\ ~(foreign /\ servers[PriorServer] = Listening)

\* main runs down to its first await, or to its exit
Main(l) ==
    /\ launcher[l].pc = "start"
    /\ \E source \in ConfigSources :
        launcher' = [launcher EXCEPT ![l] = main(@, source)]
    /\ UNCHANGED <<storeVars, servers, foreign>>

\* ensureServerRunning has returned
MainConnect(l) ==
    /\ launcher[l].pc = "ready"
    /\ launcher' = [launcher EXCEPT ![l] = mainConnect(@)]
    /\ UNCHANGED <<storeVars, servers, foreign>>

\* ensureServerRunning has thrown
MainCatch(l) ==
    /\ launcher[l].pc = "failed"
    /\ launcher' = [launcher EXCEPT ![l] = mainCatch(@, <<@.error>>)]
    /\ UNCHANGED <<storeVars, servers, foreign>>

\* killServerByPort has returned
MainRestarted(l) ==
    /\ launcher[l].pc = "restarted"
    /\ launcher' = [launcher EXCEPT ![l] = mainRestarted(@)]
    /\ UNCHANGED <<storeVars, servers, foreign>>

\* the identifiers randomUUID() gives launcher l, in order; no two processes
\* are given the same
LauncherUUIDs(l) == IF l = "l1" THEN <<"u1", "u3">> ELSE <<"u2", "u4">>

NextUUID(l) ==
    LET free == SelectSeq(LauncherUUIDs(l),
                    LAMBDA u : u \notin DOMAIN launcher[l].S.conversations)
    IN  IF free = <<>> THEN {} ELSE {free[1]}

StdioConvArgs == {Undefined} \cup {LauncherUUIDs(l)[1] : l \in Launchers}

\* the agent calls the chat tool of its launcher
StdioChat(l) ==
    /\ launcher[l].pc = "serving"
    /\ launcher[l].slot.pc = "idle"
    /\ launcher[l].calls < MaxToolCalls
    /\ \E conversationId \in StdioConvArgs, uuid \in NextUUID(l) :
        launcher' = [launcher EXCEPT ![l] = toolChat(@, "a", conversationId, Undefined, uuid)]
    /\ UNCHANGED <<storeVars, servers, foreign>>

\* the provider answers
StdioChatComplete(l) ==
    /\ launcher[l].pc = "serving"
    /\ launcher[l].slot.pc = "awaiting"
    /\ \E response \in BackendResponses :
        launcher' = [launcher EXCEPT ![l] = toolChatComplete(@, response)]
    /\ UNCHANGED <<storeVars, servers, foreign>>

MainStep(l) ==
    \/ Main(l)
    \/ MainConnect(l)
    \/ MainCatch(l)
    \/ MainRestarted(l)
    \/ StdioChat(l)
    \/ StdioChatComplete(l)

NextMain ==
    \/ \E l \in Launchers : MainStep(l)
    \/ \E l \in Launchers : LauncherStep(l)
    \/ \E s \in Servers : ServerStep(s)

SpecMain == InitMain /\ [][NextMain]_vars

\* ======================================================= manager claims
StoreNext == [conversations |-> conversations', heap |-> heap']

LastOk(op) == last.op = op /\ last.out.kind = "ok"

\* the stored list of the conversation the last call named
LastStored == MessagesOf(Store, last.id)

\* C1: on a conversation made by createConversation, getHistory returns
\* exactly the messages passed to addMessage, same roles and contents, in
\* call order, whenever the truncation limit is at least their number.
C1_HistoryReturnsAppended ==
    (/\ LastOk("history")
     /\ last.id \in DOMAIN appended
     /\ truncateLimit >= Len(appended[last.id]))
        => last.out.value = appended[last.id]

C1_Witness ==
    /\ LastOk("history")
    /\ last.id \in DOMAIN appended
    /\ Len(appended[last.id]) = 2
    /\ truncateLimit >= 2
    /\ appended[last.id][1].role # appended[last.id][2].role
    /\ appended[last.id][1].content # appended[last.id][2].content

\* C2: for every limit >= 1 and every stored list longer than the limit,
\* getHistory returns the first k messages, the marker, then the last k
\* messages, k = floor(limit / 2); with limit = 1 the view is the marker alone.
C2_TruncatedView ==
    (/\ LastOk("history")
     /\ truncateLimit >= 1
     /\ Len(LastStored) > truncateLimit)
        => LET k == truncateLimit \div 2
               n == Len(LastStored)
           IN  last.out.value =
                   SubSeq(LastStored, 1, k)
                       \o <<[role |-> "assistant", content |-> MarkerText]>>
                       \o SubSeq(LastStored, n - k + 1, n)

\* C3: for every even limit L >= 2 and every stored list longer than L,
\* getHistory returns L + 1 entries: the first L/2 stored messages, the
\* marker at (0-based) index L/2, and the last L/2 stored messages.
C3_EvenLimitView ==
    (/\ LastOk("history")
     /\ truncateLimit >= 2
     /\ truncateLimit % 2 = 0
     /\ Len(LastStored) > truncateLimit)
        => LET half == truncateLimit \div 2
               n    == Len(LastStored)
               view == last.out.value
           IN  /\ Len(view) = truncateLimit + 1
               /\ \A i \in 1..half : view[i] = LastStored[i]
               /\ view[half + 1].role = "assistant"
               /\ view[half + 1].content = MarkerText
               /\ \A i \in 1..half : view[half + 1 + i] = LastStored[n - half + i]

C3_Witness ==
    /\ LastOk("history")
    /\ truncateLimit = 2
    /\ Len(LastStored) = 4
    /\ LastStored[1] # LastStored[2]
    /\ LastStored[3] # LastStored[4]
    /\ Len(last.out.value) = 3

\* C4: getHistory is a pure read: it changes no conversation and no stored
\* message list, and a second getHistory on the same conversation right after
\* the first returns the same result.
C4_HistoryPureRead ==
    [][last'.op = "history" =>
          /\ conversations' = conversations
          /\ heap' = heap
          /\ (last.op = "history" /\ last.id = last'.id) => last'.out = last.out]_vars

C4_Witness ==
    /\ LastOk("history")
    /\ Len(LastStored) > truncateLimit
    /\ Len(last.out.value) # Len(LastStored)

\* C5: cloneConversation on a known id returns an identifier that differs
\* from the source and from every identifier in the store; the clone is bound
\* to the new model, and its history right after equals the source's history
\* at the time of cloning.
C5_CloneHistory ==
    [][(last'.op = "clone" /\ last'.out.kind = "ok") =>
          LET src == last'.id
              new == last'.out.value
          IN  /\ new # src
              /\ new \notin DOMAIN conversations
              /\ new \in DOMAIN conversations'
              /\ conversations'[new].id = new
              /\ conversations'[new].modelId = last'.model
              /\ getHistory(StoreNext, new, truncateLimit).out.value
                    = getHistory(Store, src, truncateLimit).out.value]_vars

C5_Witness ==
    /\ LastOk("clone")
    /\ Len(LastStored) >= 2
    /\ conversations[last.out.value].modelId # conversations[last.id].modelId
    /\ MessagesOf(Store, last.out.value) = LastStored

\* C6: cloneConversation copies the source's full, untruncated list and
\* leaves the source as it was; afterwards an addMessage changes the list of
\* the conversation it names and of no other, so source and clone never
\* affect each other.
C6_CloneIndependent ==
    [][/\ (last'.op = "clone" /\ last'.out.kind = "ok") =>
            /\ MessagesOf(StoreNext, last'.out.value) = MessagesOf(Store, last'.id)
            /\ conversations'[last'.id] = conversations[last'.id]
            /\ MessagesOf(StoreNext, last'.id) = MessagesOf(Store, last'.id)
       /\ (last'.op = "append" /\ last'.out.kind = "ok") =>
            \A c \in DOMAIN conversations \ {last'.id} :
                MessagesOf(StoreNext, c) = MessagesOf(Store, c)]_vars

\* a clone of a list longer than the limit, whose source was appended to since
C6_Witness ==
    /\ LastOk("append")
    /\ \E c \in DOMAIN conversations \ DOMAIN appended :
        /\ c # last.id
        /\ Len(MessagesOf(Store, c)) > truncateLimit
        /\ Len(LastStored) = Len(MessagesOf(Store, c)) + 1

NotFoundOutcome(call) ==
    CASE call.op = "get" -> call.out.value = Null
      [] call.op \in {"append", "history"} ->
            call.out = Throw(<<"Conversation not found: ", call.id>>)
      [] call.op = "clone" ->
            call.out = Throw(<<"Source conversation not found: ", call.id>>)

\* C7: getConversation, addMessage, getHistory and cloneConversation on an
\* identifier that is not in the store end in the not-found outcome (null for
\* get, a conversation-not-found error for the others) and change nothing.
C7_UnknownIdNotFound ==
    [][(/\ last'.op \in {"get", "append", "history", "clone"}
        /\ last'.id \notin DOMAIN conversations) =>
            /\ NotFoundOutcome(last')
            /\ conversations' = conversations
            /\ heap' = heap]_vars

C7_Witness ==
    /\ last.op = "clone"
    /\ last.out.kind = "throw"
    /\ last.id \notin DOMAIN conversations
    /\ conversations # <<>>

\* ========================================================== tool claims
StartBy(h) == handlers[h].pc = "idle" /\ handlers'[h].pc = "awaiting"
FinishBy(h) == handlers[h].pc = "awaiting" /\ handlers'[h].pc = "idle"

\* a chat call that returned before reaching the backend
ReturnsAtOnce == reply = NoReply /\ reply'.tool = "chat" /\ handlers' = handlers

Success(r) == r.tool = "chat" /\ ~r.result.isError

Names(args) == Truthy(args.conversationId) /\ args.conversationId \in DOMAIN conversations

IsSwitch(args) ==
    /\ Names(args)
    /\ Truthy(args.modelId)
    /\ args.modelId # conversations[args.conversationId].modelId

IsContinue(args) ==
    /\ Names(args)
    /\ ~Truthy(args.modelId) \/ args.modelId = conversations[args.conversationId].modelId

IsDefault(args) == ~Truthy(args.conversationId) /\ ~Truthy(args.modelId)

UserMessage(text) == [role |-> "user", content |-> text]
AssistantMessage(text) == [role |-> "assistant", content |-> text]

\* C8: a chat call that names conversation cid1 and a configured model other
\* than the one cid1 is bound to works on a new conversation cid2 # cid1 bound
\* to that model: when the call reaches the backend cid2 holds the messages
\* of cid1 at that moment followed by the new user message, when it returns
\* it has appended the assistant reply to cid2 and reports cid2 and the new
\* model, and neither step changes the messages of cid1.
C8_ModelSwitch ==
    [][\A h \in Handlers :
        /\ (StartBy(h) /\ IsSwitch(handlers'[h].args)) =>
            LET a   == handlers'[h].args
                src == a.conversationId
                new == handlers'[h].actualConversationId
            IN  /\ new # src
                /\ new \notin DOMAIN conversations
                /\ new \in DOMAIN conversations'
                /\ conversations'[new].modelId = a.modelId
                /\ MessagesOf(StoreNext, new)
                      = MessagesOf(Store, src) \o <<UserMessage(a.message)>>
                /\ conversations'[src] = conversations[src]
                /\ MessagesOf(StoreNext, src) = MessagesOf(Store, src)
        /\ (/\ FinishBy(h)
            /\ Success(reply')
            /\ Truthy(handlers[h].args.conversationId)
            /\ Truthy(handlers[h].args.modelId)
            /\ handlers[h].args.modelId # conversations[handlers[h].args.conversationId].modelId) =>
            LET a    == handlers[h].args
                src  == a.conversationId
                new  == handlers[h].actualConversationId
                body == reply'.result.body
            IN  /\ body.conversationId = new
                /\ new # src
                /\ body.modelId = a.modelId
                /\ conversations'[new].modelId = a.modelId
                /\ MessagesOf(StoreNext, new)
                      = MessagesOf(Store, new) \o <<AssistantMessage(body.response)>>
                /\ MessagesOf(StoreNext, src) = MessagesOf(Store, src)]_vars

\* chat("a", modelId = A) returned cid1, then chat("b", cid1, modelId = B)
\* returned cid2
C8_Witness ==
    /\ Success(reply)
    /\ Names(reply.args)
    /\ reply.args.modelId = "B"
    /\ conversations[reply.args.conversationId].modelId = "A"
    /\ reply.result.body.conversationId # reply.args.conversationId
    /\ reply.result.body.modelId = "B"
    /\ Len(MessagesOf(Store, reply.args.conversationId)) = 2
    /\ MessagesOf(Store, reply.result.body.conversationId)
          = MessagesOf(Store, reply.args.conversationId)
                \o <<UserMessage(reply.args.message),
                     AssistantMessage(reply.result.body.response)>>

\* C9: a chat call that names an existing conversation and omits modelId, or
\* passes the model the conversation is bound to, never creates a
\* conversation; it appends its user message to that conversation when it
\* reaches the backend, and when it succeeds it appends the assistant reply
\* to that conversation and returns the same conversationId.
C9_ContinueSameConversation ==
    [][\A h \in Handlers :
        /\ (StartBy(h) /\ IsContinue(handlers'[h].args)) =>
            LET a == handlers'[h].args IN
            /\ conversations' = conversations
            /\ handlers'[h].actualConversationId = a.conversationId
            /\ MessagesOf(StoreNext, a.conversationId)
                  = MessagesOf(Store, a.conversationId) \o <<UserMessage(a.message)>>
        /\ (ReturnsAtOnce /\ IsContinue(reply'.args)) =>
            /\ conversations' = conversations
            /\ heap' = heap
        /\ (FinishBy(h) /\ IsContinue(handlers[h].args)) =>
            LET a == handlers[h].args IN
            /\ conversations' = conversations
            /\ Success(reply') =>
                /\ reply'.result.body.conversationId = a.conversationId
                /\ MessagesOf(StoreNext, a.conversationId)
                      = MessagesOf(Store, a.conversationId)
                            \o <<AssistantMessage(reply'.result.body.response)>>]_vars

C9_Witness ==
    /\ Success(reply)
    /\ Names(reply.args)
    /\ reply.args.modelId = Undefined
    /\ reply.result.body.conversationId = reply.args.conversationId
    /\ Len(MessagesOf(Store, reply.args.conversationId)) = 4
    /\ MessagesOf(Store, reply.args.conversationId)[3] = UserMessage(reply.args.message)
    /\ Cardinality(DOMAIN conversations) = 1

\* C10: a chat call with neither conversationId nor modelId always reaches
\* the backend on a new conversation bound to the first configured model, and
\* its result reports that model id.
C10_DefaultModel ==
    [][\A h \in Handlers :
        /\ (StartBy(h) /\ IsDefault(handlers'[h].args)) =>
            LET new == handlers'[h].actualConversationId IN
            /\ new \notin DOMAIN conversations
            /\ new \in DOMAIN conversations'
            /\ conversations'[new].modelId = Head(configModels).id
            /\ MessagesOf(StoreNext, new) = <<UserMessage(handlers'[h].args.message)>>
        /\ ReturnsAtOnce => ~IsDefault(reply'.args)
        /\ (FinishBy(h) /\ IsDefault(handlers[h].args) /\ Success(reply')) =>
            /\ reply'.result.body.modelId = Head(configModels).id
            /\ conversations'[reply'.result.body.conversationId].modelId
                  = Head(configModels).id]_vars

C10_Witness ==
    /\ Success(reply)
    /\ IsDefault(reply.args)
    /\ reply.result.body.modelId = "A"
    /\ conversations[reply.result.body.conversationId].modelId = "A"
    /\ \E c \in DOMAIN conversations : conversations[c].modelId = "B"

\* what a handler hands back when it returns, as opposed to what it throws
IsToolResult(r) == "isError" \in DOMAIN r

\* a tool handler returns in this step
Returns(tool) == reply = NoReply /\ reply' # NoReply /\ reply'.tool = tool

\* every conversation of the store but `c` is as it was
OthersUntouched(c) ==
    \A d \in DOMAIN conversations \ {c} :
        /\ d \in DOMAIN conversations'
        /\ conversations'[d].id = conversations[d].id
        /\ conversations'[d].modelId = conversations[d].modelId
        /\ MessagesOf(StoreNext, d) = MessagesOf(Store, d)

BackendErrors ==
    {<<"Error: ", "Failed to get response from OpenAI: ", why>> :
        why \in {"network", "No content in response from OpenAI"}}

\* C11: every chat and conversation_history invocation hands a result back
\* and lets no exception out: naming an unknown conversation gives the
\* "Conversation not found" error result and leaves the store alone, a backend
\* failure gives the "Failed to get response" error result, and no step of a
\* failing invocation that names conversation c changes the id, the modelId or
\* the messages of a conversation other than c.
C11_ErrorsAreResults ==
    [][/\ \A tool \in {"chat", "conversation_history"} :
            Returns(tool) =>
                /\ IsToolResult(reply'.result)
                /\ (reply'.args.conversationId \in IdArgs \ DOMAIN conversations) =>
                      /\ reply'.result
                            = ErrorResult(<<"Conversation not found: ",
                                            reply'.args.conversationId>>)
                      /\ conversations' = conversations
                      /\ heap' = heap
                /\ reply'.result.isError => OthersUntouched(reply'.args.conversationId)
       /\ \A h \in Handlers :
            /\ StartBy(h) => OthersUntouched(handlers'[h].args.conversationId)
            /\ FinishBy(h) =>
                  \/ /\ Success(reply')
                     /\ reply'.result.body.response \in Replies
                  \/ /\ reply'.result.isError
                     /\ reply'.result.text \in BackendErrors
                     /\ conversations' = conversations
                     /\ heap' = heap]_vars

\* a backend failure answered a chat on one of two conversations: its user
\* message stays, the other conversation is as the earlier call left it
C11_Witness ==
    /\ reply.tool = "chat"
    /\ reply.result.isError
    /\ reply.result.text \in BackendErrors
    /\ Names(reply.args)
    /\ Cardinality(DOMAIN conversations) = 2
    /\ LET c == reply.args.conversationId IN
        /\ MessagesOf(Store, c)[Len(MessagesOf(Store, c))] = UserMessage(reply.args.message)
        /\ \E d \in DOMAIN conversations \ {c} : Len(MessagesOf(Store, d)) = 2

\* the arguments of the chat calls that act in this step up to their await
StepArgs ==
    {handlers'[h].args : h \in {g \in Handlers : StartBy(g)}}
        \cup (IF ReturnsAtOnce THEN {reply'.args} ELSE {})

IsPrefix(s, t) == Len(s) <= Len(t) /\ SubSeq(t, 1, Len(s)) = s

\* C12: append and clone on one conversation are atomic with respect to each
\* other however the handlers interleave: every step changes a stored list
\* by at most one whole message put at its end, and the copy a clone takes is
\* the source's list of the state the clone acts in (followed only by the
\* cloning call's own user message), the source being left as it was.
C12_CloneSeesWholeAppends ==
    [][/\ \A c \in DOMAIN conversations :
            LET old == MessagesOf(Store, c)
                new == MessagesOf(StoreNext, c)
            IN  \/ new = old
                \/ /\ Len(new) = Len(old) + 1
                   /\ IsPrefix(old, new)
                   /\ new[Len(new)] \in Messages
       /\ \A a \in {x \in StepArgs : IsSwitch(x)} :
            \A new \in DOMAIN conversations' \ DOMAIN conversations :
                LET src  == a.conversationId
                    copy == MessagesOf(StoreNext, new)
                IN  /\ \/ copy = MessagesOf(Store, src)
                       \/ copy = MessagesOf(Store, src) \o <<UserMessage(a.message)>>
                    /\ \A i \in 1..Len(copy) : copy[i] \in Messages
                    /\ MessagesOf(StoreNext, src) = MessagesOf(Store, src)]_vars

\* a call cloned a conversation while another call on the source was still
\* waiting for its answer: the copy holds that call's user message, whole
C12_Witness ==
    \E h1, h2 \in Handlers :
        /\ handlers[h1].pc = "awaiting"
        /\ handlers[h2].pc = "awaiting"
        /\ handlers[h2].args.conversationId = handlers[h1].actualConversationId
        /\ handlers[h2].actualConversationId # handlers[h1].actualConversationId
        /\ MessagesOf(Store, handlers[h1].actualConversationId)
              = <<UserMessage(handlers[h1].args.message)>>
        /\ MessagesOf(Store, handlers[h2].actualConversationId)
              = <<UserMessage(handlers[h1].args.message),
                  UserMessage(handlers[h2].args.message)>>

\* C13: identifiers are never reused: the identifier a successful
\* createConversation or cloneConversation returns is not a key of the store
\* when the call is made, and the call adds exactly that one entry and keeps
\* all the others, so N calls give N distinct identifiers and N entries.
C13_FreshIdentifiers ==
    [][(last'.op \in {"create", "clone"} /\ last'.out.kind = "ok") =>
          LET id == last'.out.value IN
          /\ id \notin DOMAIN conversations
          /\ DOMAIN conversations' = DOMAIN conversations \cup {id}
          /\ Cardinality(DOMAIN conversations') = Cardinality(DOMAIN conversations) + 1
          /\ conversations'[id].id = id
          /\ \A c \in DOMAIN conversations : conversations'[c] = conversations[c]]_vars

\* the second of two createConversation calls: two identifiers, two entries
C13_Witness ==
    /\ LastOk("create")
    /\ Cardinality(DOMAIN appended) = 2
    /\ DOMAIN conversations = DOMAIN appended
    /\ \A c \in DOMAIN conversations : conversations[c].id = c

\* C14: over any sequence of manager calls every conversation is stored
\* under its own id; a conversation in the store stays there with the same id
\* and the same modelId (cloneConversation with another model adds a
\* conversation instead), and its message list after a call has its list
\* before the call as a prefix.
C14_ConversationInvariants ==
    [][/\ \A c \in DOMAIN conversations' : conversations'[c].id = c
       /\ \A c \in DOMAIN conversations :
            /\ c \in DOMAIN conversations'
            /\ conversations'[c].id = conversations[c].id
            /\ conversations'[c].modelId = conversations[c].modelId
            /\ IsPrefix(MessagesOf(Store, c), MessagesOf(StoreNext, c))
       /\ (last'.op = "clone" /\ last'.out.kind = "ok") =>
            /\ last'.out.value \notin DOMAIN conversations
            /\ conversations'[last'.out.value].modelId = last'.model]_vars

\* a truncated view was read from a conversation that was cloned to another
\* model earlier: the list is whole and both conversations keep their models
C14_Witness ==
    /\ LastOk("history")
    /\ Len(LastStored) > truncateLimit
    /\ last.out.value # LastStored
    /\ \E d \in DOMAIN conversations \ DOMAIN appended :
        /\ last.id \in DOMAIN appended
        /\ conversations[d].modelId # conversations[last.id].modelId
        /\ conversations[d].id = d
        /\ IsPrefix(MessagesOf(Store, d), LastStored)
        /\ MessagesOf(Store, d) # <<>>

NoContent ==
    <<"Error: ", "Failed to get response from OpenAI: ", "No content in response from OpenAI">>

\* C28: a completion whose content is absent or empty fails the chat call:
\* a chat invocation that returns after its backend call either succeeds with
\* a non-empty response, which is the assistant message it appends, or hands
\* back an error result and appends nothing; the "No content in response"
\* error leaves the store as the call's user message left it, and no stored
\* message is ever empty.
C28_EmptyCompletionFails ==
    [][/\ \A h \in Handlers :
            FinishBy(h) =>
                LET c == handlers[h].actualConversationId IN
                \/ /\ Success(reply')
                   /\ Truthy(reply'.result.body.response)
                   /\ MessagesOf(StoreNext, c)
                        = MessagesOf(Store, c)
                            \o <<AssistantMessage(reply'.result.body.response)>>
                \/ /\ reply'.result.isError
                   /\ MessagesOf(StoreNext, c) = MessagesOf(Store, c)
                   /\ reply'.result.text = NoContent =>
                        /\ conversations' = conversations
                        /\ heap' = heap
       /\ \A a \in DOMAIN heap' : \A i \in 1..Len(heap'[a]) : Truthy(heap'[a][i].content)]_vars

\* a chat on a new conversation was answered without content: the error
\* result is back and the conversation holds the user message alone
C28_Witness ==
    /\ reply.tool = "chat"
    /\ reply.result.isError
    /\ reply.result.text = NoContent
    /\ \E c \in DOMAIN conversations :
        MessagesOf(Store, c) = <<UserMessage(reply.args.message)>>

\* ======================================================= launcher claims
Running(outcome) == outcome = Response(200)

\* launcher l's ensureServerRunning is called in this step
Ensures(l) == launcher[l].pc = "idle" /\ launcher'[l].probe # NoProbe

\* a poll of launcher l is answered in this step
Polls(l) == launcher[l].pc = "polling" /\ launcher'[l] # launcher[l]

ListeningServers == {s \in Servers : servers[s].pc = "listening"}

\* C15: an ensureServerRunning call whose probe is answered with status 200
\* returns successfully on that one probe: it has made a single
\* isServerRunning call, has spawned nothing and leaves every process alone.
C15_AlreadyRunning ==
    [][\A l \in Launchers :
        (Ensures(l) /\ Running(launcher'[l].probe)) =>
            /\ launcher'[l].pc = "ready"
            /\ launcher'[l].error = Undefined
            /\ launcher'[l].probes = 1
            /\ launcher'[l].spawns = 0
            /\ servers' = servers
            /\ foreign' = foreign]_vars

\* both launchers found the earlier server answering: nothing was spawned
C15_Witness ==
    /\ servers[PriorServer] = Listening
    /\ \A l \in Launchers :
        /\ launcher[l].pc = "ready"
        /\ launcher[l].probes = 1
        /\ launcher[l].spawns = 0
        /\ servers[Child(l)] = NotSpawned

\* C16: when its first probe is not answered with 200, ensureServerRunning
\* spawns one process and polls; a poll answered with 200 ends the call
\* successfully and nothing else does, a poll not answered with 200 is
\* followed by another one until 30 polls have failed, and the 30th failure,
\* and nothing else, ends the call with the startup-timeout error; no poll
\* spawns anything.
C16_SpawnThenPoll ==
    [][\A l \in Launchers :
        /\ (Ensures(l) /\ ~Running(launcher'[l].probe)) =>
            /\ launcher'[l].pc = "polling"
            /\ launcher'[l].spawns = 1
            /\ launcher'[l].retries = 0
            /\ servers[Child(l)] = NotSpawned
            /\ servers'[Child(l)] = Spawned
        /\ Polls(l) =>
            /\ launcher'[l].spawns = 1
            /\ launcher'[l].probes = launcher[l].probes + 1
            /\ servers' = servers
            /\ IF Running(launcher'[l].probe)
               THEN launcher'[l].pc = "ready" /\ launcher'[l].error = Undefined
               ELSE IF launcher[l].retries + 1 < 30
               THEN /\ launcher'[l].pc = "polling"
                    /\ launcher'[l].retries = launcher[l].retries + 1
               ELSE /\ launcher'[l].pc = "failed"
                    /\ launcher'[l].error = StartupTimeout
        /\ launcher'[l].pc = "ready" => Running(launcher'[l].probe)
        /\ launcher'[l].pc = "polling" =>
            /\ ~Running(launcher'[l].probe)
            /\ launcher'[l].probes = launcher'[l].retries + 1
        /\ launcher'[l].pc = "failed" =>
            /\ ~Running(launcher'[l].probe)
            /\ launcher'[l].retries = 30
            /\ launcher'[l].probes = 31
            /\ launcher'[l].error = StartupTimeout]_vars

\* one launcher gave up after its 30 polls, the other one spawned too and
\* saw a later poll answered
C16_Witness ==
    \E l, m \in Launchers :
        /\ launcher[l].pc = "failed"
        /\ launcher[l].retries = 30
        /\ launcher[l].spawns = 1
        /\ launcher[m].pc = "ready"
        /\ launcher[m].spawns = 1
        /\ launcher[m].retries = 2
        /\ launcher[m].probes = 4

Finished(l) == launcher[l].pc \in {"ready", "failed", "restarted"}

NoDuplicates(seq) == \A i, j \in 1..Len(seq) : seq[i] = seq[j] => i = j

\* C18: neither call can go on for ever: an ensureServerRunning call makes
\* at most 31 isServerRunning calls, and a killServerByPort call runs kill
\* once on each pid lsof printed, in turn; and every call that has begun
\* comes to its end.
C18_BoundedWork ==
    /\ [](\A l \in Launchers :
            /\ launcher[l].probes <= 1 + 30
            /\ launcher[l].spawns <= 1
            /\ NoDuplicates(launcher[l].listed)
            /\ launcher[l].attempts = SubSeq(launcher[l].listed, 1, launcher[l].next - 1)
            /\ launcher[l].pc = "restarted" => launcher[l].attempts = launcher[l].listed)
    /\ \A l \in Launchers :
            (launcher[l].pc \in {"polling", "killing"}) ~> Finished(l)

\* one call ended after its 31st probe; the process it had spawned came up
\* late and the other call found and killed it
C18_Witness ==
    \E l, m \in Launchers :
        /\ launcher[l].pc = "failed"
        /\ launcher[l].probes = 31
        /\ launcher[m].pc = "restarted"
        /\ launcher[m].listed = <<Child(l)>>
        /\ launcher[m].attempts = <<Child(l)>>
        /\ servers[Child(l)] = Exited("SIGKILL")

\* both launchers are ensureServerRunning calls made while the port was free
RaceOnFreePort ==
    /\ servers[PriorServer] = NotSpawned
    /\ ~foreign
    /\ \A l \in Launchers : launcher[l].pc \in {"idle", "polling", "ready", "failed"}

\* C19: when two launchers go through ensureServerRunning on a free port,
\* each spawns at most one process, at most one process is bound to the port
\* at any time, and a spawned process that finds the port taken, at its check
\* or at its listen, exits in that very step with code 0 or 1: a live
\* process is still starting up or is the one that listens.
C19_RaceIsHarmless ==
    [][RaceOnFreePort =>
        /\ \A l \in Launchers : launcher'[l].spawns <= 1
        /\ Cardinality(Bound([servers |-> servers', foreign |-> foreign'])) <= 1
        /\ Cardinality({s \in Servers : servers'[s].pc = "listening"}) <= 1
        /\ \A s \in Servers :
            /\ (servers[s].pc \in {"spawned", "starting"} /\ servers'[s] # servers[s]) =>
                IF Bound(World) = {}
                THEN s \in Bound([servers |-> servers', foreign |-> foreign'])
                ELSE servers'[s].pc = "exited" /\ servers'[s].exit \in {"0", "1"}
            /\ servers[s].pc = "listening" => servers'[s].pc = "listening"
            /\ servers[s].pc = "exited" => servers'[s] = servers[s]]_vars

\* both launchers spawned: one process listens, the other one found the
\* port taken when it wanted to listen and exited with code 1
C19_Witness ==
    /\ RaceOnFreePort
    /\ \A l \in Launchers : launcher[l].spawns = 1
    /\ \E s, t \in Servers :
        /\ servers[s] = Listening
        /\ servers[t] = Exited("1")

BothSpawned == \A l \in Launchers : launcher[l].spawns = 1

TimedOut(l) == launcher[l].pc = "failed" /\ launcher[l].error = StartupTimeout

\* C20: under fairness, once both launchers have spawned, either some
\* launcher runs out of its 30 polls before a server answers, or exactly one
\* server is listening and both ensureServerRunning calls have returned
\* successfully; and a launcher fails in no other way than by that timeout,
\* whatever became of the process it spawned.
C20_BothReturn ==
    /\ [](\A l \in Launchers :
            launcher[l].pc = "failed" =>
                /\ launcher[l].error = StartupTimeout
                /\ launcher[l].probes = 31)
    /\ BothSpawned ~>
            \/ \E l \in Launchers : TimedOut(l)
            \/ /\ Cardinality(ListeningServers) = 1
               /\ \A l \in Launchers : launcher[l].pc = "ready"

\* both calls returned although one of the two spawned processes lost the
\* bind and is gone
C20_Witness ==
    /\ BothSpawned
    /\ \A l \in Launchers : launcher[l].pc = "ready" /\ launcher[l].retries >= 1
    /\ \E l, m \in Launchers :
        /\ servers[Child(l)] = Listening
        /\ servers[Child(m)].pc = "exited"
        /\ servers[Child(m)].exit \in {"0", "1"}

\* ======================================================== process claims
\* the machine's processes after the step
WorldAfter == [servers |-> servers', foreign |-> foreign']

\* killServerByPort of launcher l returns in this step
Reclaims(l) == launcher[l].pc \in {"idle", "killing"} /\ launcher'[l].pc = "restarted"

\* some probe of the port would be answered 200 by /health
ProbeTrue(W) == \E outcome \in ProbeOutcomes(W) : isServerRunning(outcome).value

\* C21: when killServerByPort returns, every process that was bound to the
\* port has been terminated, the launcher's own children or not: no process
\* listens on the port and no liveness probe is answered true.
C21_ReclaimFreesPort ==
    [][\A l \in Launchers :
            Reclaims(l) => Bound(WorldAfter) = {} /\ ~ProbeTrue(WorldAfter)]_vars

\* the restart command of launcher l exits in this step
RestartExits(l) ==
    /\ launcher[l].argv = "--restart"
    /\ launcher[l].pc = "restarted"
    /\ launcher'[l].pc = "exited"

\* C22: the restart command exits 0 only when the port was reclaimed; when
\* a process still holds the port it exits non-zero and says so on stderr.
C22_RestartExitCode ==
    [][\A l \in Launchers :
            RestartExits(l) =>
                /\ launcher'[l].exit = "0" => Bound(World) = {}
                /\ Bound(World) # {} =>
                        launcher'[l].exit # "0" /\ launcher'[l].stderr # <<>>]_vars

\* a restart command has finished with exit code 0
Restarted == \E r \in Launchers :
    launcher[r].argv = "--restart" /\ launcher[r].pc = "exited" /\ launcher[r].exit = "0"

\* C23: the restart command spawns no server, and a launcher whose probe is
\* answered after the restart command has finished finds it false and
\* spawns a fresh server: never does it find a server of before the restart.
C23_FreshServerAfterRestart ==
    [][/\ \A r \in Launchers : launcher'[r].argv = "--restart" => launcher'[r].spawns = 0
       /\ \A l \in Launchers :
            Restarted /\ Ensures(l) =>
                ~launcher'[l].isRunning /\ launcher'[l].spawns = 1]_vars

\* what the operator sees of a process: its exit code and its two streams
Outcome(P) == <<P.exit, P.stdout, P.stderr>>

\* the outcomes of a launcher whose start fails on an error that is neither
\* a StartupTimeout nor one of the configuration errors main's catch knows
GenericOutcomes(debug) ==
    {Outcome(P) : P \in {Q \in {mainStdio(NotStarted(Undefined, debug), source) :
                                    source \in ConfigSources} :
                            Q.pc = "exited" /\ ~isConfigError(Q.caught)}}

\* launcher l has exited on a StartupTimeout
TimedOutExit(l) == launcher[l].pc = "exited" /\ launcher[l].caught = <<StartupTimeout>>

\* C24: a launcher whose startServer timed out exits non-zero and has served
\* no tool invocation, and what the operator sees of it (exit code, stdout,
\* stderr) is not what a generic startup failure shows.
C24_TimeoutIsDistinct ==
    \A l \in Launchers :
        TimedOutExit(l) =>
            /\ launcher[l].exit # "0"
            /\ launcher[l].calls = 0
            /\ Outcome(launcher[l]) \notin GenericOutcomes(launcher[l].debug)

\* launcher l has exited on an error of loadConfig
ConfigErrorExit(l) ==
    /\ launcher[l].argv # "--restart"
    /\ launcher[l].pc = "exited"
    /\ launcher[l].ensures = 0

\* C25: whatever error loadConfig throws at a launcher's start, with or
\* without POLYBRAIN_DEBUG, the launcher exits non-zero and a line of its
\* stderr carries the error.
C25_ConfigErrorsReported ==
    \A l \in Launchers :
        ConfigErrorExit(l) =>
            /\ launcher[l].exit # "0"
            /\ \E i \in DOMAIN launcher[l].stderr :
                    launcher[l].stderr[i].error = launcher[l].caught

\* launcher l has handled a chat call and answered it with a result
Answered(l) ==
    /\ launcher[l].calls > 0
    /\ launcher[l].slot.pc = "idle"
    /\ ~launcher[l].result.isError

\* C26: ensureServerRunning is called at most once by a process, and a
\* launcher that serves tools, or has taken a tool call, has called it
\* exactly once and had it return with the server answering /health.
C26_ServeAfterEnsure ==
    \A l \in Launchers :
        /\ launcher[l].ensures <= 1
        /\ (launcher[l].pc = "serving" \/ launcher[l].calls > 0 \/ launcher[l].slot.pc # "idle") =>
                /\ launcher[l].ensures = 1
                /\ launcher[l].isRunning
                /\ Running(launcher[l].probe)

C26_Witness ==
    \E l \in Launchers :
        /\ Answered(l)
        /\ launcher[l].spawns = 1
        /\ launcher[l].ensures = 1
        /\ servers[Child(l)].pc = "listening"

\* C27: the conversation a chat call of a launcher has created or extended
\* is held by the server process that listens on the port.
C27_RoutedToBackend ==
    \A l \in Launchers :
        Answered(l) =>
            \E s \in Servers :
                /\ servers[s].pc = "listening"
                /\ launcher[l].result.body.conversationId
                        \in DOMAIN servers[s].S.conversations

\* a launcher in stdio mode without POLYBRAIN_DEBUG=true
Silent(l) == launcher[l].argv # "--restart" /\ ~launcher[l].debug

\* C29: in a launcher without POLYBRAIN_DEBUG=true the level is "error" from
\* before the configuration is loaded on, and every line of its stdout is a
\* protocol message.
C29_StdoutIsProtocol ==
    \A l \in Launchers :
        Silent(l) =>
            /\ launcher[l].pc # "start" => launcher[l].currentLogLevel = "error"
            /\ \A i \in DOMAIN launcher[l].stdout : launcher[l].stdout[i].by = "protocol"

C29_Witness ==
    \E l \in Launchers :
        /\ Silent(l)
        /\ Answered(l)
        /\ launcher[l].stdout = <<ProtocolLine>>
        /\ launcher[l].stderr = <<>>

\* C30: with POLYBRAIN_DEBUG=true no debug or info line of the logger is
\* written to a launcher's stdout.
C30_DebugGoesToStderr ==
    \A l \in Launchers :
        launcher[l].argv # "--restart" /\ launcher[l].debug =>
            \A i \in DOMAIN launcher[l].stdout :
                ~(/\ launcher[l].stdout[i].by = "logger"
                  /\ launcher[l].stdout[i].level \in {"debug", "info"})

\* ============================================== further tool claims
\* two configurations that differ in nothing but the API keys
SameButKeys(c, d) ==
    /\ Len(c.models) = Len(d.models)
    /\ \A i \in 1..Len(c.models) :
        [c.models[i] EXCEPT !.apiKey = ""] = [d.models[i] EXCEPT !.apiKey = ""]

Listed == reply.tool = "list_models"

\* C31: list_models answers with one entry per configured model, in the
\* order of the configuration, each holding id, modelName and baseUrl and
\* nothing else; any configuration that differs only in API keys gives the
\* same answer.
C31_ListModelsHidesKeys ==
    Listed =>
        LET models == reply.result.body.models IN
        /\ ~reply.result.isError
        /\ Len(models) = Len(toolsConfig.models)
        /\ \A i \in 1..Len(models) :
            /\ DOMAIN models[i] = {"id", "modelName", "baseUrl"}
            /\ models[i].id = toolsConfig.models[i].id
            /\ models[i].modelName = toolsConfig.models[i].modelName
            /\ models[i].baseUrl = toolsConfig.models[i].baseUrl
        /\ \A other \in Configs :
            SameButKeys(toolsConfig, other) => listModels(other) = reply.result

C31_Witness ==
    /\ Listed
    /\ Len(toolsConfig.models) = 2
    /\ toolsConfig.models[1].id = "B"
    /\ toolsConfig.models[2].id = "A"
    /\ toolsConfig.models[1].apiKey # toolsConfig.models[2].apiKey

\* a chat call returns "Model not configured" in this step
ModelNotConfigured ==
    /\ Returns("chat")
    /\ reply'.result.isError
    /\ reply'.result.text[2] = "Model not configured: "

\* C32: a chat call that ends with "Model not configured" leaves the store
\* as it was: no conversation is created and none is cloned.
C32_UnknownModelNoChange ==
    [][ModelNotConfigured => conversations' = conversations /\ heap' = heap]_vars

\* the target of h holds what h found plus h's user message: no other
\* invocation has appended to it since
Alone(h) ==
    MessagesOf(Store, handlers[h].actualConversationId)
        = Append(handlers[h].before, UserMessage(handlers[h].args.message))

\* C33: when the backend call of a chat invocation fails, the target
\* conversation's messages are again what they were before the call: the
\* user message of the failed call is not kept.
C33_FailureRestoresMessages ==
    [][\A h \in Handlers :
        FinishBy(h) /\ reply'.result.isError /\ Alone(h) =>
            MessagesOf(StoreNext, handlers[h].actualConversationId)
                = handlers[h].before]_vars

\* user, assistant, user, assistant, ...
Alternates(messages) ==
    \A i \in 1..Len(messages) :
        messages[i].role = IF i % 2 = 1 THEN "user" ELSE "assistant"

\* C34: every stored message list alternates user, assistant, user, ...
\* from a user message on, and a reply is appended right after the user
\* message it answers.
C34_StrictAlternation ==
    [][/\ \A c \in DOMAIN conversations' : Alternates(MessagesOf(StoreNext, c))
       /\ \A h \in Handlers :
            FinishBy(h) /\ Success(reply') =>
                LET messages == MessagesOf(StoreNext, handlers[h].actualConversationId)
                    n == Len(messages)
                IN  /\ n >= 2
                    /\ messages[n - 1] = UserMessage(handlers[h].args.message)
                    /\ messages[n] = AssistantMessage(reply'.result.body.response)]_vars

\* while h awaited, an invocation that had appended its user message before
\* h did has appended its reply, and nothing else was appended
Overlapped(h) ==
    LET messages == MessagesOf(Store, handlers[h].actualConversationId)
        before == handlers[h].before
    IN  /\ before # <<>>
        /\ before[Len(before)].role = "user"
        /\ Len(messages) = Len(before) + 2
        /\ messages[Len(messages)].role = "assistant"

\* C35: a handler appends its user message to what the conversation holds
\* and, on success, its reply to what it holds then; when two invocations
\* on a conversation overlap and both succeed, the conversation ends with
\* both user messages and both replies, four messages more than before.
C35_OverlapLosesNothing ==
    [][\A h \in Handlers :
        /\ StartBy(h) =>
                MessagesOf(StoreNext, handlers'[h].actualConversationId)
                    = Append(handlers'[h].before, UserMessage(handlers'[h].args.message))
        /\ (StartBy(h) /\ IsContinue(handlers'[h].args)) =>
                handlers'[h].before = MessagesOf(Store, handlers'[h].actualConversationId)
        /\ (FinishBy(h) /\ Success(reply')) =>
                LET c == handlers[h].actualConversationId
                    before == handlers[h].before
                    asked == UserMessage(handlers[h].args.message)
                    answered == AssistantMessage(reply'.result.body.response)
                IN  /\ MessagesOf(StoreNext, c) = Append(MessagesOf(Store, c), answered)
                    /\ IsPrefix(Append(before, asked), MessagesOf(Store, c))
                    /\ Overlapped(h) =>
                        /\ MessagesOf(StoreNext, c)
                              = before \o <<asked, MessagesOf(Store, c)[Len(before) + 2],
                                            answered>>
                        /\ Len(MessagesOf(StoreNext, c)) = (Len(before) - 1) + 4]_vars

C35_Witness ==
    /\ Success(reply)
    /\ \A h \in Handlers : handlers[h].pc = "idle"
    /\ LET messages == MessagesOf(Store, reply.result.body.conversationId) IN
        /\ Len(messages) = 4
        /\ messages[1] = UserMessage("a")
        /\ messages[2] = UserMessage("b")
        /\ messages[3].role = "assistant"
        /\ messages[4].role = "assistant"

\* C36: with a truncation limit of 2 or more, the messages a suspended chat
\* invocation has sent end with the user message of that invocation.
C36_SentEndsWithOwnMessage ==
    \A h \in Awaiting :
        truncateLimit >= 2 =>
            LET sent == handlers[h].sent.messages IN
            /\ sent # <<>>
            /\ sent[Len(sent)] = UserMessage(handlers[h].args.message)

C36_Witness ==
    /\ truncateLimit >= 2
    /\ \E h, g \in Awaiting :
        /\ h # g
        /\ handlers[h].actualConversationId = handlers[g].actualConversationId
        /\ handlers[h].args.message = "a"
        /\ handlers[g].args.message = "b"
        /\ handlers[g].sent.messages = <<UserMessage("a"), UserMessage("b")>>

\* C37: no stored message list holds the truncation marker (no caller and
\* no provider of the model sends that text).
C37_MarkerNeverStored ==
    \A c \in DOMAIN conversations :
        \A i \in 1..Len(MessagesOf(Store, c)) :
            MessagesOf(Store, c)[i].content # MarkerText

\* a clone of a conversation longer than the limit was sent truncated
C37_Witness ==
    \E h \in Awaiting :
        /\ Truthy(handlers[h].args.conversationId)
        /\ handlers[h].actualConversationId # handlers[h].args.conversationId
        /\ Len(handlers[h].before) > truncateLimit
        /\ \E i \in 1..Len(handlers[h].sent.messages) :
                handlers[h].sent.messages[i].content = MarkerText
        /\ Len(MessagesOf(Store, handlers[h].actualConversationId))
                = Len(handlers[h].before) + 1

\* C38: a successful chat result names a stored conversation, carries that
\* conversation's modelId and, when no other invocation appended to the
\* conversation meanwhile, the conversation ends with the call's user
\* message and the returned response.
C38_ResultMatchesStore ==
    [][\A h \in Handlers :
        (FinishBy(h) /\ Success(reply')) =>
            LET body == reply'.result.body IN
            /\ body.conversationId \in DOMAIN conversations'
            /\ body.modelId = conversations'[body.conversationId].modelId
            /\ Alone(h) =>
                    MessagesOf(StoreNext, body.conversationId)
                        = handlers[h].before
                            \o <<UserMessage(handlers[h].args.message),
                                 AssistantMessage(body.response)>>]_vars

C38_Witness ==
    /\ Success(reply)
    /\ LET body == reply.result.body
           messages == MessagesOf(Store, body.conversationId)
       IN  /\ conversations[body.conversationId].modelId = body.modelId
           /\ Len(messages) = 4
           /\ messages[3] = UserMessage(reply.args.message)
           /\ messages[4] = AssistantMessage(body.response)
           /\ messages[2].role = "assistant"

\* ============================================= further launcher claims
\* C39: while a process that is no polybrain server holds the port,
\* ensureServerRunning finds the probe false and spawns one process, that
\* process exits with code 0 without listening, no call returns
\* successfully, a call fails only with the startup timeout after its 30
\* polls, the calls leave the foreign process alone, and every call that
\* polls does fail unless the foreign process goes away.
C39_ForeignHolderTimesOut ==
    /\ [][\A l \in Launchers :
            /\ (foreign /\ Ensures(l)) =>
                    /\ ~launcher'[l].isRunning
                    /\ launcher'[l].spawns = 1
                    /\ launcher'[l].pc = "polling"
                    /\ servers'[Child(l)].pc = "spawned"
            /\ (foreign /\ servers[Child(l)].pc = "spawned"
                        /\ servers'[Child(l)].pc # "spawned") =>
                    servers'[Child(l)] = Exited("0")
            /\ foreign => ~(launcher[l].pc # "ready" /\ launcher'[l].pc = "ready")
            /\ (foreign /\ launcher[l].pc = "polling" /\ launcher'[l].pc = "failed") =>
                    /\ launcher'[l].error = StartupTimeout
                    /\ launcher'[l].retries = maxRetries
                    /\ launcher'[l].probes = maxRetries + 1
                    /\ launcher'[l].spawns = 1
            /\ (launcher[l].argv # "--restart" /\ launcher'[l] # launcher[l]) =>
                    foreign' = foreign]_vars
    /\ \A l \in Launchers :
            (foreign /\ launcher[l].pc = "polling")
                ~> (launcher[l].pc = "failed" \/ ~foreign)

C39_Witness ==
    /\ foreign
    /\ \E l \in Launchers :
        /\ TimedOut(l)
        /\ launcher[l].probes = maxRetries + 1
        /\ servers[Child(l)] = Exited("0")
====
